---- MODULE Spec2Model ----
(***************************************************************************)
(* God (go-daemons): one run of the command line tool.  main dispatches    *)
(* one worker goroutine per requested service; each worker materializes    *)
(* its Service (Runner.MakeService) and runs the lifecycle command on it   *)
(* (Service.Install, Service.Uninstall, ...).  Every progress event goes   *)
(* through the unbuffered channel runner.output to the single              *)
(* StartPrintOutput loop, which main stops through runner.quit after       *)
(* wg.Wait().                                                              *)
(***************************************************************************)
EXTENDS Integers, Sequences, FiniteSets, TLC

(***************************************************************************)
(* Bounds of the model.                                                    *)
(***************************************************************************)
\* the longest list of service names given on the command line
MaxWorkers == 2
\* the number of entries of copy_files of the service "api"
MaxCopyFiles == 1

(***************************************************************************)
(* Values.                                                                 *)
(***************************************************************************)
NoErr == <<>>
Stdout == "stdout"
Stderr == "stderr"
RemoteHome == "/home/pioz"
CurrentUser == "pioz"

\* MessageStatus, src/unnamed/part_001:480-489
MessageNormal == "normal"
MessageSuccess == "success"
MessageError == "error"
MessageWarning == "warning"

availableCommands ==
  {"install", "uninstall", "start", "stop", "restart", "status", "show-service"}

\* A go_install value: the package reference, split as packageRegExp splits it.
Pkg(name, version) == [name |-> name, version |-> version]
NoPkg == Pkg("", "")

\* A Conf record as readConf returns it (the fields the lifecycle reads).
MkConf(user, host, goInstall, goPrivate, goBin, workDir, logPath, copyFiles) ==
  [ User |-> user, Host |-> host, Port |-> "", PrivateKeyPath |-> "",
    GoExecPath |-> "/usr/local/go/bin/go", GoBinDirectory |-> goBin,
    GoInstall |-> goInstall, GoPrivate |-> goPrivate,
    SystemdPath |-> "", SystemdServicesDirectory |-> "",
    SystemdLingerDirectory |-> "",
    ExecStart |-> "", WorkingDirectory |-> workDir, Environment |-> "",
    LogPath |-> logPath, RunAfterService |-> "", StartLimitBurst |-> 0,
    StartLimitIntervalSec |-> 0, RestartSec |-> 0,
    CopyFiles |-> copyFiles ]

\* local paths a copy_files list names
CopyPaths == <<"assets", "static", "extra">>

\* The configuration file of the run: two deployable services, two records
\* that miss a required value.  "ghost" is a name the file does not have.
ConfFile ==
  [ n \in {"web", "api", "nohost", "nopkg"} |->
      CASE n = "web" ->
             MkConf("", "10.0.0.1", Pkg("web", "latest"), "",
                    "/home/pioz/go/bin", "", "/var/log/web.log", <<>>)
        [] n = "api" ->
             MkConf("deploy", "10.0.0.2", Pkg("api", "latest"),
                    "corp.example", "", "/srv/api", "",
                    SubSeq(CopyPaths, 1, MaxCopyFiles))
        [] n = "nohost" ->
             MkConf("", "", Pkg("x", "latest"), "", "", "", "", <<>>)
        [] n = "nopkg" ->
             MkConf("", "10.0.0.4", NoPkg, "", "", "", "", <<>>) ]

ServiceNames == DOMAIN ConfFile \cup {"ghost"}

VARIABLES
  command,                 \* flag.Args()[0]
  services,                \* flag.Args()[1:], the dispatch list
  QuietMode,               \* Runner.QuietMode
  conf,                    \* Runner.conf: name -> Conf (records are mutated)
  cache,                   \* Runner.services: name -> Service
  SftClient,               \* per client: is Client.SftClient non-nil
  pc,                      \* per worker: the call it makes next
  svc,                     \* per worker: the Service MakeService returned
  steps,                   \* per worker: the names of the calls made so far
  ops,                     \* per worker: what the latest call did, in order
  arg,                     \* per worker: the flag the latest call was given
                           \* (createWorkingDirectory, removeWorkingDirectory)
  lastErr,                 \* per worker: the error the latest call returned
  ret,                     \* per worker: what Install returned
  outbox,                  \* per worker: the SendMessage calls of the latest
                           \* call not yet received; the worker is blocked in
                           \* the head
  wg,                      \* sync.WaitGroup counter
  mainPc,                  \* main: "wait" | "stop" | "exit"
  sinkPc,                  \* StartPrintOutput: "collecting" | "stopped"
  recv,                    \* per worker: the messages of its latest call that
                           \* the loop received
  printed,                 \* per worker: the lines the loop printed for them
  crashed,                 \* the process died of a goroutine panic
  localTree,               \* the walk: the local tree below srcPath
  remoteTree,              \* the walk: the file system of the remote host
  remoteBefore,            \* the walk: remoteTree before the first call
  wpc,                     \* the walk: "off" | "copy" | "copied" | "delete"
                           \* | "rmdirs" | "end" | "panic"
  widx,                    \* the walk: the entry (the directory) it is at
  dirs,                    \* Client.WalkDir: the stack dirs
  directories,             \* DeleteFile: the remote directories collected
  visits,                  \* the walk: the callback calls made so far
  attempts,                \* DeleteFile: the removals attempted so far
  copied,                  \* how CopyFile went: "no" | "ok" | "failed"
  call,                    \* a function called on its own: its name and inputs
  result                   \* what that call returned

mainVars ==
  << command, services, QuietMode, conf, cache, SftClient, pc, svc, steps,
     ops, arg, lastErr, ret, outbox, wg, mainPc, sinkPc, recv, printed,
     crashed >>

walkVars ==
  << localTree, remoteTree, remoteBefore, wpc, widx, dirs, directories,
     visits, attempts, copied >>

vars == << mainVars, walkVars, call, result >>

Workers == 1..Len(services)
NoService == [client |-> 0, remoteHomeDir |-> ""]

(***************************************************************************)
(* Log items.                                                              *)
(***************************************************************************)
Item(k, step, text, status) ==
  [k |-> k, step |-> step, text |-> text, status |-> status]
Ev(step, text, status) == Item("event", step, text, status)
Rem(step, cmd, st) == Item("remote", step, cmd, st)
\* the error session.Run returns for a failed command
ExecErr(cmd) == <<"exit status 1">> \o cmd
SftpErr(what) == <<"sftp">> \o what

\* What a call did: the items in program order, the error returned, and
\* whether the call panicked instead of returning.
\* sftp says whether the client holds a file-transfer channel afterwards.
Result(items, err, sftp) ==
  [ops |-> items, err |-> err, panic |-> FALSE, sftp |-> sftp]
Panicked(items, sftp) ==
  [ops |-> items, err |-> <<"panic">>, panic |-> TRUE, sftp |-> sftp]

Events(items) == SelectSeq(items, LAMBDA i : i.k = "event")
Remotes(items) == SelectSeq(items, LAMBDA i : i.k = "remote")

(***************************************************************************)
(* Runner.MakeService (src/runner/runner.go:96-213).                       *)
(***************************************************************************)
\* filepath.Join of a directory and one element
Join(dir, elem) ==
  IF dir = "" THEN elem
  ELSE IF elem = "" THEN dir
  ELSE dir \o "/" \o elem

\* getExec: the name before the version suffix; empty when packageRegExp
\* does not match, that is when the reference has no version suffix
getExec(packageName) ==
  IF packageName.version # "" THEN packageName.name ELSE ""

\* Variants of validateConf: one that forgets the go_install check, one
\* that checks nothing.
validateConfHostOnly(c) ==
  IF c.Host = "" THEN <<"required configuration host value is missing">>
  ELSE NoErr
validateConfNothing(c) == NoErr

validateConf(c) ==
  IF c.Host = "" THEN <<"required configuration host value is missing">>
  ELSE IF c.GoInstall = NoPkg
       THEN <<"required configuration go_install value is missing">>
       ELSE NoErr

\* What the environment answers during one MakeService call.
MakeServiceInputs ==
  [ user : BOOLEAN,                       \* user.Current() succeeds
    key : BOOLEAN,                        \* the private key file is readable
    conn : {"ok", "badkey", "nodial"},    \* ssh.ParsePrivateKey, ssh.Dial
    pwd : BOOLEAN,                        \* pwd succeeds
    gobin : {"set", "empty", "fail"},     \* go env GOBIN
    misebin : {"set", "empty", "fail"},   \* mise exec -- go env GOBIN
    which : {"set", "fail"},              \* which go
    misewhich : {"set", "fail"} ]         \* mise exec -- which go

\* the value a query leaves in the field: the output, empty after an error
Queried(answer, value) == IF answer = "set" THEN value ELSE ""
QueryStatus(answer) == IF answer = "fail" THEN "fail" ELSE "ok"

\* lines 116-128: the connection defaults
SshDefaults(c, in) ==
  [c EXCEPT
     !.User = IF @ = "" /\ in.user THEN CurrentUser ELSE @,
     !.Port = IF @ = "" THEN "22" ELSE @,
     !.PrivateKeyPath = IF @ = "" THEN "~/.ssh/id_rsa" ELSE @]

\* lines 154-169: GoBinDirectory, and the queries made for it
GoBinQueries(c, in) ==
  IF c.GoBinDirectory # "" THEN <<>>
  ELSE <<Rem("MakeService", "go env GOBIN", QueryStatus(in.gobin))>> \o
       (IF Queried(in.gobin, "/home/pioz/go/bin") # "" THEN <<>>
        ELSE <<Rem("MakeService", "mise exec -- go env GOBIN",
                   QueryStatus(in.misebin))>>)
GoBinResolved(c, in) ==
  IF c.GoBinDirectory # "" THEN c.GoBinDirectory
  ELSE IF Queried(in.gobin, "/home/pioz/go/bin") # ""
       THEN Queried(in.gobin, "/home/pioz/go/bin")
       ELSE Queried(in.misebin, "/home/pioz/go/bin")

\* lines 170-184: GoExecPath, and the queries made for it
GoExecQueries(c, in) ==
  IF c.GoExecPath # "" THEN <<>>
  ELSE <<Rem("MakeService", "which go", QueryStatus(in.which))>> \o
       (IF Queried(in.which, "/usr/bin/go") # "" THEN <<>>
        ELSE <<Rem("MakeService", "mise exec -- which go",
                   QueryStatus(in.misewhich))>>)
GoExecResolved(c, gobin, in) ==
  IF c.GoExecPath # "" THEN c.GoExecPath
  ELSE IF Queried(in.which, "/usr/bin/go") # ""
       THEN Queried(in.which, "/usr/bin/go")
       ELSE IF Queried(in.misewhich, "/home/pioz/.mise/go") # ""
            THEN Queried(in.misewhich, "/home/pioz/.mise/go")
            ELSE Join(gobin, "go")

\* lines 186-206: the remaining defaults
ServiceDefaults(c, gobin, goexec) ==
  [c EXCEPT
     !.GoBinDirectory = gobin,
     !.GoExecPath = goexec,
     !.SystemdPath = IF @ = "" THEN "systemd" ELSE @,
     !.SystemdServicesDirectory =
        IF @ = "" THEN Join(RemoteHome, ".config/systemd/user") ELSE @,
     !.SystemdLingerDirectory =
        IF @ = "" THEN "/var/lib/systemd/linger" ELSE @,
     !.ExecStart =
        IF @ = "" /\ getExec(c.GoInstall) # ""
        THEN Join(gobin, getExec(c.GoInstall)) ELSE @,
     !.WorkingDirectory = IF @ = "" THEN RemoteHome ELSE @]

\* One call for a name that is not cached, by worker w: the Conf record it
\* leaves (found says whether the name has one), what it did, the error, and
\* whether it reached "Save cache".
MakeServiceOutcome(found, c0, w, in) ==
  LET out(c, items, err, made) ==
        [conf |-> c, ops |-> items, err |-> err, made |-> made]
      c1 == SshDefaults(c0, in)
      mk(st) == Item("client", "MakeService", <<"MakeClient", c1.Host>>, st)
      dial(st) == Rem("MakeService", "ssh.Dial " \o c1.Host \o ":" \o c1.Port, st)
      pwd(st) == Rem("MakeService", "pwd", st)
      gobin == GoBinResolved(c1, in)
      binq == GoBinQueries(c1, in)
      goexec == GoExecResolved(c1, gobin, in)
      c2 == [c1 EXCEPT !.GoBinDirectory = gobin]
  IN
  IF ~found
    THEN out(c0, <<>>, <<"configuration for service was not found">>, FALSE)
  ELSE IF validateConf(c0) # NoErr
    THEN out(c0, <<>>, validateConf(c0), FALSE)
  ELSE IF ~in.key
    THEN out(c1, <<mk("fail")>>, <<"open private key: no such file">>, FALSE)
  ELSE IF in.conn = "badkey"
    THEN out(c1, <<mk("ok")>>, <<"ssh: no key found">>, FALSE)
  ELSE IF in.conn = "nodial"
    THEN out(c1, <<mk("ok"), dial("fail")>>, <<"dial tcp: connection refused">>,
             FALSE)
  ELSE IF ~in.pwd
    THEN out(c1, <<mk("ok"), dial("ok"), pwd("fail")>>, ExecErr(<<"pwd">>),
             FALSE)
  ELSE IF gobin = ""
    THEN out(c2, <<mk("ok"), dial("ok"), pwd("ok")>> \o binq,
             <<"$GOBIN environment variable is not set on the remote host">>,
             FALSE)
  ELSE out(ServiceDefaults(c1, gobin, goexec),
           <<mk("ok"), dial("ok"), pwd("ok")>> \o binq \o GoExecQueries(c2, in),
           NoErr, TRUE)

\* The ways one call can go.
MakeService(found, c0, w) ==
  { MakeServiceOutcome(found, c0, w, in) : in \in MakeServiceInputs }

(***************************************************************************)
(* Service: the remote primitives (src/runner/message.go:232-361).         *)
(***************************************************************************)
\* PrintExec: the command as a normal event, the command, then its output
\* as a success event or the diagnostic as an error event.
PrintExec(step, cmd, errorMessage, sf) ==
  { Result(<<Ev(step, <<cmd>>, MessageNormal), Rem(step, cmd, "ok"),
             Ev(step, <<Stdout>>, MessageSuccess)>>, NoErr, sf),
    Result(<<Ev(step, <<cmd>>, MessageNormal), Rem(step, cmd, "fail"),
             Ev(step,
                IF errorMessage = "" THEN <<Stderr>>
                ELSE <<errorMessage, ": ", Stderr>>,
                MessageError)>>,
           ExecErr(<<cmd>>), sf) }

\* A variant of ConnectSftpClient: the cached channel is not looked at.
ConnectSftpClientAlways(step, sf) ==
  {[ops |-> <<Rem(step, "sftp.NewClient", "ok")>>, ok |-> TRUE],
   [ops |-> <<Rem(step, "sftp.NewClient", "fail")>>, ok |-> FALSE]}

\* Client.ConnectSftpClient (src/unnamed/part_002:77-87): nothing to do when
\* the channel is cached, else sftp.NewClient, which may fail.  The set of
\* [ops, ok]: what the call did and whether it returned nil.
ConnectSftpClient(step, sf) ==
  IF sf THEN {[ops |-> <<>>, ok |-> TRUE]}
  ELSE {[ops |-> <<Rem(step, "sftp.NewClient", "ok")>>, ok |-> TRUE],
        [ops |-> <<Rem(step, "sftp.NewClient", "fail")>>, ok |-> FALSE]}
SftpConnectErr == SftpErr(<<"NewClient">>)

\* Service.CopyFile (message.go:271-295) over Client.WalkDir
\* (part_002:113-135).  The walk of a local path that does not exist calls
\* the callback with a nil entry, and WalkDir dereferences it (line 129).
\* walk: what the local path and the remote side do to the walk.
CopyFile(step, path, dir, sf) ==
  UNION { IF ~k.ok
          THEN {Result(k.ops, SftpConnectErr, FALSE)}
          ELSE { Result(k.ops \o <<Rem(step, "mirror " \o path \o " to " \o dir,
                                       "ok")>>, NoErr, TRUE),
                 Result(k.ops \o <<Rem(step, "mirror " \o path \o " to " \o dir,
                                       "fail")>>, SftpErr(<<"copy", path>>),
                        TRUE),
                 Panicked(k.ops, TRUE) }
        : k \in ConnectSftpClient(step, sf) }

\* Service.DeleteFile (message.go:299-317): the callback always returns nil
\* and the results of Remove and RemoveDirectory are dropped.
DeleteFile(step, path, dir, sf) ==
  UNION { IF ~k.ok
          THEN {Result(k.ops, SftpConnectErr, FALSE)}
          ELSE { Result(k.ops \o <<Rem(step, "unmirror " \o path \o " from "
                                             \o dir, st)>>, NoErr, TRUE)
                   : st \in {"ok", "fail"} }
                 \cup {Panicked(k.ops, TRUE)}
        : k \in ConnectSftpClient(step, sf) }

\* A variant of HTMLEscape: the text is written as it is.
HTMLEscapeNothing(str) == str

\* The escaper html/template (message.go:207) applies to a value it puts in
\* a text: these characters are replaced, every other one is kept.
RECURSIVE HTMLEscape(_)
HTMLEscape(str) ==
  IF str = "" THEN ""
  ELSE LET r == SubSeq(str, 1, 1)
       IN (CASE r = "\"" -> "&#34;"
             [] r = "&" -> "&amp;"
             [] r = "'" -> "&#39;"
             [] r = "+" -> "&#43;"
             [] r = "<" -> "&lt;"
             [] r = ">" -> "&gt;"
             [] OTHER -> r) \o HTMLEscape(SubSeq(str, 2, Len(str)))

\* A variant of GenerateServiceFile: the Environment line comes before the
\* RestartSec line.
GenerateServiceFileEnvironmentFirst(name, c) ==
  <<"[Unit]", "Description=" \o name>> \o
  (IF c.RunAfterService # "" THEN <<"After=" \o c.RunAfterService>> ELSE <<>>) \o
  (IF c.StartLimitBurst # 0
   THEN <<"StartLimitBurst=" \o ToString(c.StartLimitBurst)>> ELSE <<>>) \o
  (IF c.StartLimitIntervalSec # 0
   THEN <<"StartLimitIntervalSec=" \o ToString(c.StartLimitIntervalSec)>>
   ELSE <<>>) \o
  <<"", "[Service]", "Type=simple", "Restart=always">> \o
  (IF c.Environment # "" THEN <<"Environment=" \o c.Environment>> ELSE <<>>) \o
  (IF c.RestartSec # 0
   THEN <<"RestartSec=" \o ToString(c.RestartSec)>> ELSE <<>>) \o
  (IF c.LogPath # "" THEN <<"StandardOutput=append:" \o c.LogPath>> ELSE <<>>) \o
  (IF c.LogPath # "" THEN <<"StandardError=append:" \o c.LogPath>> ELSE <<>>) \o
  <<"WorkingDirectory=" \o c.WorkingDirectory, "ExecStart=" \o c.ExecStart,
    "", "[Install]", "WantedBy=default.target">>

\* A variant of GenerateServiceFile: log_path gives the StandardOutput line
\* only.
GenerateServiceFileOneLogLine(name, c) ==
  <<"[Unit]", "Description=" \o name>> \o
  (IF c.RunAfterService # "" THEN <<"After=" \o c.RunAfterService>> ELSE <<>>) \o
  (IF c.StartLimitBurst # 0
   THEN <<"StartLimitBurst=" \o ToString(c.StartLimitBurst)>> ELSE <<>>) \o
  (IF c.StartLimitIntervalSec # 0
   THEN <<"StartLimitIntervalSec=" \o ToString(c.StartLimitIntervalSec)>>
   ELSE <<>>) \o
  <<"", "[Service]", "Type=simple", "Restart=always">> \o
  (IF c.RestartSec # 0
   THEN <<"RestartSec=" \o ToString(c.RestartSec)>> ELSE <<>>) \o
  (IF c.Environment # "" THEN <<"Environment=" \o c.Environment>> ELSE <<>>) \o
  (IF c.LogPath # "" THEN <<"StandardOutput=append:" \o c.LogPath>> ELSE <<>>) \o
  <<"WorkingDirectory=" \o c.WorkingDirectory, "ExecStart=" \o c.ExecStart,
    "", "[Install]", "WantedBy=default.target">>

\* Service.GenerateServiceFile with serviceTemplate (message.go:346-394)
GenerateServiceFile(name, c) ==
  <<"[Unit]", "Description=" \o name>> \o
  (IF c.RunAfterService # "" THEN <<"After=" \o HTMLEscape(c.RunAfterService)>> ELSE <<>>) \o
  (IF c.StartLimitBurst # 0
   THEN <<"StartLimitBurst=" \o ToString(c.StartLimitBurst)>> ELSE <<>>) \o
  (IF c.StartLimitIntervalSec # 0
   THEN <<"StartLimitIntervalSec=" \o ToString(c.StartLimitIntervalSec)>>
   ELSE <<>>) \o
  <<"", "[Service]", "Type=simple", "Restart=always">> \o
  (IF c.RestartSec # 0
   THEN <<"RestartSec=" \o ToString(c.RestartSec)>> ELSE <<>>) \o
  (IF c.Environment # "" THEN <<"Environment=" \o HTMLEscape(c.Environment)>> ELSE <<>>) \o
  (IF c.LogPath # ""
   THEN <<"StandardOutput=append:" \o HTMLEscape(c.LogPath)>> ELSE <<>>) \o
  (IF c.LogPath # ""
   THEN <<"StandardError=append:" \o HTMLEscape(c.LogPath)>> ELSE <<>>) \o
  <<"WorkingDirectory=" \o HTMLEscape(c.WorkingDirectory),
    "ExecStart=" \o HTMLEscape(c.ExecStart),
    "", "[Install]", "WantedBy=default.target">>

ServiceFileName(name, c) ==
  Join(c.SystemdServicesDirectory, name \o ".service")

\* Service.CopyUnitServiceFile (message.go:320-342)
CopyUnitServiceFile(step, name, c, sf) ==
  UNION { IF ~k.ok
          THEN {[ops |-> k.ops, err |-> SftpConnectErr, sftp |-> FALSE]}
          ELSE { [ops |-> k.ops \o <<Rem(step, "sftp.Create "
                                               \o ServiceFileName(name, c), "ok"),
                                     Rem(step, "sftp.Write "
                                               \o ServiceFileName(name, c), "ok")>>,
                  err |-> NoErr, sftp |-> TRUE],
                 [ops |-> k.ops \o <<Rem(step, "sftp.Create "
                                               \o ServiceFileName(name, c), "fail")>>,
                  err |-> SftpErr(<<"create">>), sftp |-> TRUE],
                 [ops |-> k.ops \o <<Rem(step, "sftp.Create "
                                               \o ServiceFileName(name, c), "ok"),
                                     Rem(step, "sftp.Write "
                                               \o ServiceFileName(name, c), "fail")>>,
                  err |-> SftpErr(<<"write">>), sftp |-> TRUE] }
        : k \in ConnectSftpClient(step, sf) }

(***************************************************************************)
(* Service: the lifecycle steps (src/unnamed/part_001:203-423).  Each is   *)
(* the set of ways one call can go.                                        *)
(***************************************************************************)
CheckGo(name, c, sf) ==
  PrintExec("CheckGo", c.GoExecPath \o " version",
            "couldn't find the go executable", sf)

CheckSystemd(name, c, sf) ==
  PrintExec("CheckSystemd", c.SystemdPath \o " --version",
            "couldn't find the systemd executable", sf)

CheckLingering(name, c, sf) ==
  LET cmd == "ls " \o c.SystemdLingerDirectory
      head(st) == <<Ev("CheckLingering", <<cmd>>, MessageNormal),
                    Rem("CheckLingering", cmd, st)>>
      notListed == <<"user is not in the linger list", c.User>>
  IN { Result(head("fail") \o
                <<Ev("CheckLingering", ExecErr(<<cmd>>), MessageError)>>,
              ExecErr(<<cmd>>), sf),
       Result(head("ok") \o
                <<Ev("CheckLingering", notListed, MessageError)>>,
              notListed, sf),
       Result(head("ok") \o
                <<Ev("CheckLingering", <<Stdout>>, MessageSuccess)>>,
              NoErr, sf) }

\* A variant of CheckWorkingDir: the directory is created whatever the flag.
CheckWorkingDirCreates(name, c, sf, create) ==
  LET test == "test -e " \o c.WorkingDirectory
      mkdir == "mkdir -p " \o c.WorkingDirectory
      absent == <<Ev("CheckWorkingDir", <<test>>, MessageNormal),
                  Rem("CheckWorkingDir", test, "fail")>>
  IN { Result(<<Ev("CheckWorkingDir", <<test>>, MessageNormal),
                Rem("CheckWorkingDir", test, "ok"),
                Ev("CheckWorkingDir", <<"">>, MessageSuccess)>>, NoErr, sf),
       Result(absent \o
                <<Ev("CheckWorkingDir", <<mkdir>>, MessageNormal),
                  Rem("CheckWorkingDir", mkdir, "fail"),
                  Ev("CheckWorkingDir", ExecErr(<<mkdir>>), MessageError)>>,
              ExecErr(<<mkdir>>), sf),
       Result(absent \o
                <<Ev("CheckWorkingDir", <<mkdir>>, MessageNormal),
                  Rem("CheckWorkingDir", mkdir, "ok"),
                  Ev("CheckWorkingDir", <<Stdout>>, MessageSuccess)>>,
              NoErr, sf) }

CheckWorkingDir(name, c, sf, create) ==
  LET test == "test -e " \o c.WorkingDirectory
      mkdir == "mkdir -p " \o c.WorkingDirectory
      absent == <<Ev("CheckWorkingDir", <<test>>, MessageNormal),
                  Rem("CheckWorkingDir", test, "fail")>>
  IN { Result(<<Ev("CheckWorkingDir", <<test>>, MessageNormal),
                Rem("CheckWorkingDir", test, "ok"),
                Ev("CheckWorkingDir", <<"">>, MessageSuccess)>>, NoErr, sf) }
     \cup
     (IF ~create
      THEN { Result(absent \o
                      <<Ev("CheckWorkingDir",
                           <<"Service working directory does not exist",
                             c.WorkingDirectory>>, MessageError)>>,
                    ExecErr(<<test>>), sf) }
      ELSE { Result(absent \o
                      <<Ev("CheckWorkingDir", <<mkdir>>, MessageNormal),
                        Rem("CheckWorkingDir", mkdir, "fail"),
                        Ev("CheckWorkingDir", ExecErr(<<mkdir>>), MessageError)>>,
                    ExecErr(<<mkdir>>), sf),
             Result(absent \o
                      <<Ev("CheckWorkingDir", <<mkdir>>, MessageNormal),
                        Rem("CheckWorkingDir", mkdir, "ok"),
                        Ev("CheckWorkingDir", <<Stdout>>, MessageSuccess)>>,
                    NoErr, sf) })

\* cat: how reading ~/.netrc went, "has" when it holds the entry already
AuthPrivateRepo(name, c, sf) ==
  IF c.GoPrivate = "" THEN {Result(<<>>, NoErr, sf)}
  ELSE
    LET found == Ev("AuthPrivateRepo", <<"GO_PRIVATE found: edit .netrc file">>,
                    MessageNormal)
        cat(st) == Rem("AuthPrivateRepo", "cat ~/.netrc", st)
        echo(kept, st) ==
          Rem("AuthPrivateRepo",
              IF kept THEN "echo auth+old > ~/.netrc" ELSE "echo auth > ~/.netrc",
              st)
        done == Ev("AuthPrivateRepo", <<"">>, MessageSuccess)
    IN { Result(<<found, cat("ok"), done>>, NoErr, sf) }
       \cup
       UNION { { Result(<<found, cat(IF kept THEN "ok" ELSE "fail"),
                          echo(kept, "ok"), done>>, NoErr, sf),
                 Result(<<found, cat(IF kept THEN "ok" ELSE "fail"),
                          echo(kept, "fail"),
                          Ev("AuthPrivateRepo",
                             ExecErr(<<"echo > ~/.netrc">>), MessageError)>>,
                        ExecErr(<<"echo > ~/.netrc">>), sf) }
             : kept \in BOOLEAN }

InstallExecutable(name, c, sf) ==
  LET goInstall == c.GoInstall.name \o "@" \o c.GoInstall.version
      cmd == IF c.GoPrivate # ""
             THEN "GOPRIVATE=" \o c.GoPrivate \o " " \o c.GoExecPath
                  \o " install " \o goInstall
             ELSE c.GoExecPath \o " install " \o goInstall
      file == "file " \o c.ExecStart
      errorMessage == "cannot install the package"
      first(st) == <<Ev("InstallExecutable", <<cmd>>, MessageNormal),
                     Rem("InstallExecutable", cmd, st)>>
  IN { Result(first("fail") \o
                <<Ev("InstallExecutable",
                     <<errorMessage, ": ", Stderr, ": ", Stderr>>,
                     MessageError)>>,
              ExecErr(<<cmd>>), sf),
       Result(first("ok") \o
                <<Rem("InstallExecutable", file, "fail"),
                  Ev("InstallExecutable",
                     <<"couldn't find the executable", c.ExecStart, ": ", Stderr>>,
                     MessageError)>>,
              ExecErr(<<file>>), sf),
       Result(first("ok") \o
                <<Rem("InstallExecutable", file, "ok"),
                  Ev("InstallExecutable", <<"Installed">>, MessageSuccess)>>,
              NoErr, sf) }

DeleteExecutable(name, c, sf) ==
  PrintExec("DeleteExecutable", "rm " \o c.ExecStart,
            "cannot delete service binary file", sf)

CreateServiceFile(name, c, sf) ==
  LET start == Ev("CreateServiceFile",
                  <<"Copy service file in", c.SystemdServicesDirectory>>,
                  MessageNormal)
  IN { IF k.err # NoErr
       THEN Result(<<start>> \o k.ops \o
                     <<Ev("CreateServiceFile", k.err, MessageError)>>,
                   k.err, k.sftp)
       ELSE Result(<<start>> \o k.ops \o
                     <<Ev("CreateServiceFile", <<"Copied">>, MessageSuccess)>>,
                   NoErr, k.sftp)
     : k \in CopyUnitServiceFile("CreateServiceFile", name, c, sf) }

\* The loop of CopyFiles from entry i on, after the items so far.
RECURSIVE CopyFilesFrom(_, _, _, _)
CopyFilesFrom(i, c, sofar, sf) ==
  IF i > Len(c.CopyFiles)
  THEN { Result(sofar \o <<Ev("CopyFiles", <<"All files copied">>,
                              MessageSuccess)>>, NoErr, sf) }
  ELSE UNION {
         IF k.panic THEN {Panicked(sofar \o k.ops, k.sftp)}
         ELSE IF k.err # NoErr
         THEN { Result(sofar \o k.ops \o
                         <<Ev("CopyFiles",
                              <<"cannot copy file", c.CopyFiles[i], ": ">>
                                \o k.err, MessageError)>>,
                       k.err, k.sftp) }
         ELSE CopyFilesFrom(i + 1, c, sofar \o k.ops, k.sftp)
       : k \in CopyFile("CopyFiles", c.CopyFiles[i], c.WorkingDirectory, sf) }

CopyFiles(name, c, sf) ==
  IF Len(c.CopyFiles) > 0
  THEN CopyFilesFrom(1, c, <<Ev("CopyFiles", <<"Copying files">>,
                                MessageNormal)>>, sf)
  ELSE {Result(<<>>, NoErr, sf)}

\* The loop of DeleteFiles from entry i on: a failed DeleteFile is a warning
\* and the loop goes on.
RECURSIVE DeleteFilesFrom(_, _, _, _)
DeleteFilesFrom(i, c, sofar, sf) ==
  IF i > Len(c.CopyFiles)
  THEN { [ops |-> sofar \o <<Ev("DeleteFiles", <<"All files deleted">>,
                                MessageSuccess)>>,
          panic |-> FALSE, sftp |-> sf] }
  ELSE UNION {
         IF k.panic THEN {[ops |-> sofar \o k.ops, panic |-> TRUE, sftp |-> k.sftp]}
         ELSE DeleteFilesFrom(
                i + 1, c,
                sofar \o k.ops \o
                  (IF k.err # NoErr
                   THEN <<Ev("DeleteFiles",
                             <<"cannot delete file", c.CopyFiles[i], ": ">>
                               \o k.err, MessageWarning)>>
                   ELSE <<>>),
                k.sftp)
       : k \in DeleteFile("DeleteFiles", c.CopyFiles[i], c.WorkingDirectory, sf) }

\* lines 339-349
DeleteMirrored(c, sf) ==
  IF Len(c.CopyFiles) > 0
  THEN DeleteFilesFrom(1, c, <<Ev("DeleteFiles", <<"Deleting files">>,
                                  MessageNormal)>>, sf)
  ELSE {[ops |-> <<>>, panic |-> FALSE, sftp |-> sf]}

\* lines 351-363: when the file channel cannot be opened the error is
\* reported and Remove is still called, on the nil SftClient.
DeleteLogFile(c, sf) ==
  IF c.LogPath = "" THEN {[ops |-> <<>>, panic |-> FALSE, sftp |-> sf]}
  ELSE
    LET start == Ev("DeleteFiles", <<"Deleting log file", c.LogPath>>,
                    MessageNormal)
        cannot(err) == Ev("DeleteFiles",
                          <<"Cannot delete log file", c.LogPath, ": ">> \o err,
                          MessageError)
        rm(st) == Rem("DeleteFiles", "sftp.Remove " \o c.LogPath, st)
    IN UNION {
         IF ~k.ok
         THEN {[ops |-> <<start>> \o k.ops \o <<cannot(SftpConnectErr)>>,
                panic |-> TRUE, sftp |-> FALSE]}
         ELSE {[ops |-> <<start>> \o k.ops \o
                          <<rm("ok"),
                            Ev("DeleteFiles", <<"Deleted">>, MessageSuccess)>>,
                 panic |-> FALSE, sftp |-> TRUE],
               [ops |-> <<start>> \o k.ops \o
                          <<rm("fail"), cannot(SftpErr(<<"remove">>))>>,
                 panic |-> FALSE, sftp |-> TRUE]}
       : k \in ConnectSftpClient("DeleteFiles", sf) }

\* Service.DeleteDirIfEmpty (message.go:355-361): the error it returns,
\* tagged with its kind: "none", "status4" (sshFxFailure), "status" (another
\* sftp.StatusError) or "other" (not a StatusError).
DeleteDirIfEmpty(step, dirPath, sf) ==
  UNION {
    IF ~k.ok THEN {[ops |-> k.ops, kind |-> "other", sftp |-> FALSE]}
    ELSE {[ops |-> k.ops \o <<Rem(step, "sftp.Remove " \o dirPath, "ok")>>,
           kind |-> "none", sftp |-> TRUE]}
         \cup
         {[ops |-> k.ops \o <<Rem(step, "sftp.Remove " \o dirPath, "fail")>>,
           kind |-> kd, sftp |-> TRUE] : kd \in {"status4", "status", "other"}}
  : k \in ConnectSftpClient(step, sf) }

\* A variant of DeleteWorkingDir: the working directory is not compared
\* with the home directory.
DeleteWorkingDirAlways(c, home, sf) ==
  { [ops |->
       <<Ev("DeleteFiles",
            <<"Deleting service working directory", c.WorkingDirectory>>,
            MessageNormal)>> \o k.ops \o
       <<Ev("DeleteFiles", <<"Deleted">>, MessageSuccess)>>,
     panic |-> FALSE, sftp |-> k.sftp]
  : k \in DeleteDirIfEmpty("DeleteFiles", c.WorkingDirectory, sf) }

\* lines 364-376: the "Deleted" event is sent whatever DeleteDirIfEmpty
\* returned.
DeleteWorkingDir(c, home, sf) ==
  IF c.WorkingDirectory = home THEN {[ops |-> <<>>, panic |-> FALSE, sftp |-> sf]}
  ELSE
    { [ops |->
         <<Ev("DeleteFiles",
              <<"Deleting service working directory", c.WorkingDirectory>>,
              MessageNormal)>> \o k.ops \o
         (CASE k.kind = "status4" ->
                 <<Ev("DeleteFiles",
                      <<"Cannot delete service working directory",
                        c.WorkingDirectory, ": directory is not empty">>,
                      MessageError)>>
            [] k.kind = "status" ->
                 <<Ev("DeleteFiles",
                      <<"Cannot delete service working directory",
                        c.WorkingDirectory, ": ", "sftp status error">>,
                      MessageError)>>
            [] OTHER -> <<>>) \o
         <<Ev("DeleteFiles", <<"Deleted">>, MessageSuccess)>>,
       panic |-> FALSE, sftp |-> k.sftp]
    : k \in DeleteDirIfEmpty("DeleteFiles", c.WorkingDirectory, sf) }

\* A variant of DeleteFiles: a removal that failed ends the call.
DeleteFilesStopsOnFailure(name, c, home, sf, remove) ==
  UNION {
    IF a.panic THEN {Panicked(a.ops, a.sftp)}
    ELSE IF ~remove \/ \E i \in 1..Len(a.ops) : a.ops[i].status = "fail"
    THEN {Result(a.ops, NoErr, a.sftp)}
    ELSE UNION {
           IF b.panic THEN {Panicked(a.ops \o b.ops, b.sftp)}
           ELSE { Result(a.ops \o b.ops \o d.ops, NoErr, d.sftp)
                  : d \in DeleteWorkingDir(c, home, b.sftp) }
         : b \in DeleteLogFile(c, a.sftp) }
  : a \in DeleteMirrored(c, sf) }

\* Service.DeleteFiles (part_001:338-379): the mirrored files, then, when
\* removeWorkingDirectory, the log file and the working directory.  It
\* always returns nil.
DeleteFiles(name, c, home, sf, remove) ==
  UNION {
    IF a.panic THEN {Panicked(a.ops, a.sftp)}
    ELSE IF ~remove THEN {Result(a.ops, NoErr, a.sftp)}
    ELSE UNION {
           IF b.panic THEN {Panicked(a.ops \o b.ops, b.sftp)}
           ELSE { Result(a.ops \o b.ops \o d.ops, NoErr, d.sftp)
                  : d \in DeleteWorkingDir(c, home, b.sftp) }
         : b \in DeleteLogFile(c, a.sftp) }
  : a \in DeleteMirrored(c, sf) }

ShowServiceFile(name, c, sf) ==
  {Result(<<Ev("ShowServiceFile", GenerateServiceFile(name, c), MessageNormal)>>,
          NoErr, sf)}

DeleteServiceFile(name, c, sf) ==
  PrintExec("DeleteServiceFile", "rm " \o ServiceFileName(name, c),
            "cannot delete service file", sf)

ReloadDaemon(name, c, sf) ==
  PrintExec("ReloadDaemon", "systemctl --user daemon-reload",
            "couldn't reload systemd daemon", sf)

ResetFailedServices(name, c, sf) ==
  PrintExec("ResetFailedServices", "systemctl --user reset-failed",
            "couldn't reset failed systemd services", sf)

EnableService(name, c, sf) ==
  PrintExec("EnableService", "systemctl --user enable " \o name,
            "couldn't enable systemd service", sf)

DisableService(name, c, sf) ==
  PrintExec("DisableService", "systemctl --user disable " \o name,
            "couldn't disable systemd service", sf)

StartService(name, c, sf) ==
  PrintExec("StartService", "systemctl --user start " \o name,
            "couldn't start systemd service", sf)

StopService(name, c, sf) ==
  PrintExec("StopService", "systemctl --user stop " \o name,
            "couldn't stop systemd service", sf)

RestartService(name, c, sf) ==
  PrintExec("RestartService", "systemctl --user restart " \o name,
            "couldn't restart systemd service", sf)

StatusService(name, c, sf) ==
  PrintExec("StatusService", "systemctl --user status " \o name, "", sf)

(***************************************************************************)
(* Service.Install and Service.Uninstall (part_001:425-467), and the       *)
(* worker goroutines of main (src/main.go:119-218).                        *)
(***************************************************************************)
\* A variant of InstallSteps: the files are mirrored before the executable
\* is installed.
InstallStepsReordered ==
  << "CheckGo", "CheckSystemd", "CheckLingering", "CheckWorkingDir",
     "AuthPrivateRepo", "CopyFiles", "InstallExecutable", "CreateServiceFile",
     "ReloadDaemon", "EnableService" >>

InstallSteps ==
  << "CheckGo", "CheckSystemd", "CheckLingering", "CheckWorkingDir",
     "AuthPrivateRepo", "InstallExecutable", "CopyFiles", "CreateServiceFile",
     "ReloadDaemon", "EnableService" >>

\* A variant of UninstallSteps: the unit file is deleted before the unit is
\* disabled.
UninstallStepsReordered ==
  << "StopService", "DeleteServiceFile", "DisableService", "ReloadDaemon",
     "ResetFailedServices", "DeleteExecutable", "DeleteFiles" >>

UninstallSteps ==
  << "StopService", "DisableService", "DeleteServiceFile", "ReloadDaemon",
     "ResetFailedServices", "DeleteExecutable", "DeleteFiles" >>

IndexOf(seq, x) == CHOOSE i \in 1..Len(seq) : seq[i] = x

\* A variant of Install: the error of a step is returned only once the last
\* step has run.
InstallIgnoresError(step, err) ==
  IF IndexOf(InstallSteps, step) = Len(InstallSteps)
  THEN [next |-> "done", ret |-> err]
  ELSE [next |-> InstallSteps[IndexOf(InstallSteps, step) + 1], ret |-> err]

\* Install after step returned err: the call made next, or the return.
Install(step, err) ==
  IF err # NoErr THEN [next |-> "done", ret |-> err]
  ELSE IF IndexOf(InstallSteps, step) = Len(InstallSteps)
       THEN [next |-> "done", ret |-> NoErr]
       ELSE [next |-> InstallSteps[IndexOf(InstallSteps, step) + 1],
             ret |-> NoErr]

\* A variant of Uninstall: it returns at the first step that fails.
UninstallStopsOnError(step, err) ==
  IF err # NoErr \/ IndexOf(UninstallSteps, step) = Len(UninstallSteps)
  THEN [next |-> "done", ret |-> NoErr]
  ELSE [next |-> UninstallSteps[IndexOf(UninstallSteps, step) + 1],
        ret |-> NoErr]

\* Uninstall after step returned err: the results are dropped.
Uninstall(step, err) ==
  IF IndexOf(UninstallSteps, step) = Len(UninstallSteps)
  THEN [next |-> "done", ret |-> NoErr]
  ELSE [next |-> UninstallSteps[IndexOf(UninstallSteps, step) + 1],
        ret |-> NoErr]

\* The switch of main: what a worker calls on the Service it got.
FirstStep(cmd) ==
  CASE cmd = "install" -> "CheckGo"
    [] cmd = "uninstall" -> "StopService"
    [] cmd = "start" -> "StartService"
    [] cmd = "stop" -> "StopService"
    [] cmd = "restart" -> "RestartService"
    [] cmd = "status" -> "StatusService"
    [] cmd = "show-service" -> "ShowServiceFile"

AfterStep(cmd, step, err) ==
  CASE cmd = "install" -> Install(step, err)
    [] cmd = "uninstall" -> Uninstall(step, err)
    [] OTHER -> [next |-> "done", ret |-> NoErr]

\* A variant of WorkerBody: the error is reported and the lifecycle call is
\* made all the same.
WorkerBodyGoesOn(cmd, err) ==
  [next |-> FirstStep(cmd),
   ops |-> IF err # NoErr THEN <<Ev("main", err, MessageError)>> ELSE <<>>]

\* The body of a worker after MakeService returned err (main.go:125-130):
\* the error as one event, or the lifecycle call.
WorkerBody(cmd, err) ==
  IF err # NoErr
  THEN [next |-> "done", ops |-> <<Ev("main", err, MessageError)>>]
  ELSE [next |-> FirstStep(cmd), ops |-> <<>>]

\* A variant of Messages: a send that does not wait for the loop, so only
\* the first event of a call gets through.
MessagesDropped(name, items) ==
  [i \in 1..(IF Events(items) = <<>> THEN 0 ELSE 1) |->
     [serviceName |-> name, text |-> Events(items)[i].text,
      status |-> Events(items)[i].status]]

\* SendMessage (runner.go:243-249) for the events of a call, in order
Messages(name, items) ==
  [i \in 1..Len(Events(items)) |->
     [serviceName |-> name, text |-> Events(items)[i].text,
      status |-> Events(items)[i].status]]

NoArg == "none"
Flag(b) == IF b THEN "true" ELSE "false"

\* A worker may run when the process lives and it is not blocked in a send.
Running(w) == ~crashed /\ mainPc # "exit" /\ outbox[w] = <<>>

Name(w) == services[w]
Cfg(w) == conf[services[w]]
Sf(w) == SftClient[svc[w].client]

\* "Save cache" (runner.go:207-211)
SaveCache(name, service, c) == (name :> service) @@ c

\* MakeService up to "Save cache" (runner.go:96-206), and what the worker
\* does with an error (main.go:126-127).
WorkerMakeService(w) ==
  /\ Running(w)
  /\ pc[w] = "MakeService"
  /\ steps' = [steps EXCEPT ![w] = Append(@, "MakeService")]
  /\ arg' = [arg EXCEPT ![w] = NoArg]
  /\ recv' = [recv EXCEPT ![w] = <<>>]
  /\ printed' = [printed EXCEPT ![w] = <<>>]
  /\ IF Name(w) \in DOMAIN cache
     THEN /\ svc' = [svc EXCEPT ![w] = cache[Name(w)]]
          /\ ops' = [ops EXCEPT ![w] = <<>>]
          /\ lastErr' = [lastErr EXCEPT ![w] = NoErr]
          /\ pc' = [pc EXCEPT ![w] = WorkerBody(command, NoErr).next]
          /\ UNCHANGED << conf, outbox >>
     ELSE \E o \in MakeService(Name(w) \in DOMAIN conf,
                                IF Name(w) \in DOMAIN conf THEN Cfg(w)
                                ELSE ConfFile["nohost"], w) :
            /\ conf' = IF Name(w) \in DOMAIN conf
                       THEN [conf EXCEPT ![Name(w)] = o.conf] ELSE conf
            /\ ops' = [ops EXCEPT
                         ![w] = IF o.made THEN o.ops
                                ELSE o.ops \o WorkerBody(command, o.err).ops]
            /\ lastErr' = [lastErr EXCEPT ![w] = o.err]
            /\ svc' = [svc EXCEPT
                         ![w] = IF o.made
                                THEN [client |-> w, remoteHomeDir |-> RemoteHome]
                                ELSE @]
            /\ pc' = [pc EXCEPT
                        ![w] = IF o.made THEN "SaveCache"
                               ELSE WorkerBody(command, o.err).next]
            /\ outbox' = [outbox EXCEPT
                            ![w] = IF o.made THEN <<>>
                                   ELSE Messages(Name(w),
                                                 WorkerBody(command, o.err).ops)]
  /\ UNCHANGED << walkVars, call, result, command, services, QuietMode, cache, SftClient, ret, wg,
                  mainPc, sinkPc, crashed >>

\* "Save cache" and the return (runner.go:207-213)
WorkerSaveCache(w) ==
  /\ Running(w)
  /\ pc[w] = "SaveCache"
  /\ cache' = SaveCache(Name(w), svc[w], cache)
  /\ pc' = [pc EXCEPT ![w] = WorkerBody(command, NoErr).next]
  /\ UNCHANGED << walkVars, call, result, command, services, QuietMode, conf, SftClient, svc, steps,
                  ops, arg, lastErr, ret, outbox, wg, mainPc, sinkPc, recv, printed,
                  crashed >>

\* One lifecycle call by worker w: step, given flag, with the ways it can
\* go.
WorkerStep(w, step, flag, results) ==
  /\ Running(w)
  /\ pc[w] = step
  /\ \E r \in results :
       /\ steps' = [steps EXCEPT ![w] = Append(@, step)]
       /\ ops' = [ops EXCEPT ![w] = r.ops]
       /\ lastErr' = [lastErr EXCEPT ![w] = r.err]
       /\ outbox' = [outbox EXCEPT ![w] = Messages(Name(w), r.ops)]
       /\ SftClient' = [SftClient EXCEPT ![svc[w].client] = r.sftp]
       /\ pc' = [pc EXCEPT
                   ![w] = IF r.panic THEN "panic"
                          ELSE AfterStep(command, step, r.err).next]
       /\ ret' = [ret EXCEPT
                    ![w] = IF r.panic THEN @
                           ELSE AfterStep(command, step, r.err).ret]
  /\ arg' = [arg EXCEPT ![w] = flag]
  /\ recv' = [recv EXCEPT ![w] = <<>>]
  /\ printed' = [printed EXCEPT ![w] = <<>>]
  /\ UNCHANGED << walkVars, call, result, command, services, QuietMode, conf, cache, svc, wg, mainPc,
                  sinkPc, crashed >>

WorkerCheckGo(w) == WorkerStep(w, "CheckGo", NoArg, CheckGo(Name(w), Cfg(w), Sf(w)))
WorkerCheckSystemd(w) ==
  WorkerStep(w, "CheckSystemd", NoArg, CheckSystemd(Name(w), Cfg(w), Sf(w)))
WorkerCheckLingering(w) ==
  WorkerStep(w, "CheckLingering", NoArg, CheckLingering(Name(w), Cfg(w), Sf(w)))
\* Install passes its argument createWorkingDirectory on to this call.
WorkerCheckWorkingDir(w) ==
  \E createWorkingDirectory \in BOOLEAN :
    WorkerStep(w, "CheckWorkingDir", Flag(createWorkingDirectory),
               CheckWorkingDir(Name(w), Cfg(w), Sf(w), createWorkingDirectory))
WorkerAuthPrivateRepo(w) ==
  WorkerStep(w, "AuthPrivateRepo", NoArg, AuthPrivateRepo(Name(w), Cfg(w), Sf(w)))
WorkerInstallExecutable(w) ==
  WorkerStep(w, "InstallExecutable", NoArg, InstallExecutable(Name(w), Cfg(w), Sf(w)))
WorkerCopyFiles(w) ==
  WorkerStep(w, "CopyFiles", NoArg, CopyFiles(Name(w), Cfg(w), Sf(w)))
WorkerCreateServiceFile(w) ==
  WorkerStep(w, "CreateServiceFile", NoArg, CreateServiceFile(Name(w), Cfg(w), Sf(w)))
WorkerReloadDaemon(w) ==
  WorkerStep(w, "ReloadDaemon", NoArg, ReloadDaemon(Name(w), Cfg(w), Sf(w)))
WorkerEnableService(w) ==
  WorkerStep(w, "EnableService", NoArg, EnableService(Name(w), Cfg(w), Sf(w)))
WorkerStopService(w) ==
  WorkerStep(w, "StopService", NoArg, StopService(Name(w), Cfg(w), Sf(w)))
WorkerDisableService(w) ==
  WorkerStep(w, "DisableService", NoArg, DisableService(Name(w), Cfg(w), Sf(w)))
WorkerDeleteServiceFile(w) ==
  WorkerStep(w, "DeleteServiceFile", NoArg, DeleteServiceFile(Name(w), Cfg(w), Sf(w)))
WorkerResetFailedServices(w) ==
  WorkerStep(w, "ResetFailedServices", NoArg, ResetFailedServices(Name(w), Cfg(w), Sf(w)))
WorkerDeleteExecutable(w) ==
  WorkerStep(w, "DeleteExecutable", NoArg, DeleteExecutable(Name(w), Cfg(w), Sf(w)))
\* Uninstall passes its argument removeWorkingDirectory on to this call.
WorkerDeleteFiles(w) ==
  \E removeWorkingDirectory \in BOOLEAN :
    WorkerStep(w, "DeleteFiles", Flag(removeWorkingDirectory),
               DeleteFiles(Name(w), Cfg(w), svc[w].remoteHomeDir, Sf(w),
                           removeWorkingDirectory))
WorkerStartService(w) ==
  WorkerStep(w, "StartService", NoArg, StartService(Name(w), Cfg(w), Sf(w)))
WorkerRestartService(w) ==
  WorkerStep(w, "RestartService", NoArg, RestartService(Name(w), Cfg(w), Sf(w)))
WorkerStatusService(w) ==
  WorkerStep(w, "StatusService", NoArg, StatusService(Name(w), Cfg(w), Sf(w)))
WorkerShowServiceFile(w) ==
  WorkerStep(w, "ShowServiceFile", NoArg, ShowServiceFile(Name(w), Cfg(w), Sf(w)))

\* The goroutine returns: its locals are gone, and the deferred wg.Done()
\* runs.
WorkerDone(w) ==
  /\ Running(w)
  /\ pc[w] = "done"
  /\ pc' = [pc EXCEPT ![w] = "exited"]
  /\ wg' = wg - 1
  /\ ops' = [ops EXCEPT ![w] = <<>>]
  /\ arg' = [arg EXCEPT ![w] = NoArg]
  /\ lastErr' = [lastErr EXCEPT ![w] = NoErr]
  /\ ret' = [ret EXCEPT ![w] = NoErr]
  /\ recv' = [recv EXCEPT ![w] = <<>>]
  /\ printed' = [printed EXCEPT ![w] = <<>>]
  /\ UNCHANGED << walkVars, call, result, command, services, QuietMode, conf, cache, SftClient, svc,
                  steps, outbox, mainPc, sinkPc, crashed >>

\* The look-up in r.services (runner.go:98) is made without r.mu, the store
\* (runner.go:208-210) with it: the two are not ordered.  A Go map that is
\* read while it is written gives the old value, the new one, or ends the
\* process with the fatal error of the runtime; the first two are the
\* orders of WorkerMakeService and WorkerSaveCache, this is the third.
CacheReadHoldsMu == FALSE

CacheRace(w, v) ==
  /\ w # v
  /\ pc[w] = "MakeService" /\ Running(w)
  /\ pc[v] = "SaveCache" /\ Running(v)

WorkerCacheRace(w) ==
  /\ ~CacheReadHoldsMu
  /\ \E v \in Workers : CacheRace(w, v)
  /\ crashed' = TRUE
  /\ UNCHANGED << walkVars, call, result, command, services, QuietMode, conf, cache,
                  SftClient, pc, svc, steps, ops, arg, lastErr, ret, outbox, wg,
                  mainPc, sinkPc, recv, printed >>

\* A panic in a goroutine that nothing recovers ends the process.
WorkerPanic(w) ==
  /\ Running(w)
  /\ pc[w] = "panic"
  /\ crashed' = TRUE
  /\ UNCHANGED << walkVars, call, result, command, services, QuietMode, conf, cache, SftClient, pc,
                  svc, steps, ops, arg, lastErr, ret, outbox, wg, mainPc, sinkPc, recv,
                  printed >>

(***************************************************************************)
(* The progress sink (runner.go:217-239, part_001:529-549) and main        *)
(* (main.go:113-117, 220).                                                 *)
(***************************************************************************)
Max(a, b) == IF a >= b THEN a ELSE b

\* A variant of LongestName: the length of the first name.
LongestNameFirst(names) == IF names = <<>> THEN 0 ELSE Len(Head(names))

RECURSIVE LongestName(_)
LongestName(names) ==
  IF names = <<>> THEN 0 ELSE Max(Len(Head(names)), LongestName(Tail(names)))

\* message.print: the line written for m in a column of the given width
print(m, width) ==
  [ serviceName |-> m.serviceName,
    text |-> IF m.text = <<"">> /\ m.status = MessageSuccess
             THEN <<"ok">> ELSE m.text,
    status |-> m.status,
    width |-> IF Max(Len(m.serviceName), width) # 0
              THEN Max(Len(m.serviceName), width) + 3 ELSE 0 ]

\* A variant of Prints: the quiet flag is not looked at.
PrintsAll(quiet, m) == TRUE

\* the condition under which the loop prints what it received
Prints(quiet, m) == ~quiet \/ m.status = MessageError

\* the loop may take the quit signal: main is blocked in StopPrintOutput
QuitReady(mpc) == mpc = "stop"

\* A variant of SinkReceive: every blocked sender is served in the same
\* step, as if each worker wrote its own line.
SinkReceiveAll(w) ==
  /\ ~crashed
  /\ sinkPc = "collecting"
  /\ outbox[w] # <<>>
  /\ outbox' = [v \in Workers |-> IF outbox[v] = <<>> THEN <<>> ELSE Tail(outbox[v])]
  /\ recv' = [v \in Workers |->
                IF outbox[v] = <<>> THEN recv[v]
                ELSE Append(recv[v], Head(outbox[v]))]
  /\ printed' = [v \in Workers |->
                   IF outbox[v] # <<>> /\ Prints(QuietMode, Head(outbox[v]))
                   THEN Append(printed[v],
                               print(Head(outbox[v]), LongestName(services)))
                   ELSE printed[v]]
  /\ UNCHANGED << walkVars, call, result, command, services, QuietMode, conf, cache, SftClient, pc,
                  svc, steps, ops, arg, lastErr, ret, wg, mainPc, sinkPc, crashed >>

\* A variant of SinkReceive: the loop takes the message a worker sent last.
SinkReceiveLast(w) ==
  /\ ~crashed
  /\ sinkPc = "collecting"
  /\ outbox[w] # <<>>
  /\ outbox' = [outbox EXCEPT ![w] = SubSeq(@, 1, Len(@) - 1)]
  /\ recv' = [recv EXCEPT ![w] = Append(@, outbox[w][Len(outbox[w])])]
  /\ printed' =
       IF Prints(QuietMode, outbox[w][Len(outbox[w])])
       THEN [printed EXCEPT
               ![w] = Append(@, print(outbox[w][Len(outbox[w])], LongestName(services)))]
       ELSE printed
  /\ UNCHANGED << walkVars, call, result, command, services, QuietMode, conf, cache, SftClient, pc,
                  svc, steps, ops, arg, lastErr, ret, wg, mainPc, sinkPc, crashed >>

\* case message := <-runner.output, and its body: the loop takes the message
\* worker w is blocked sending and prints it
SinkReceive(w) ==
  /\ ~crashed
  /\ sinkPc = "collecting"
  /\ outbox[w] # <<>>
  /\ outbox' = [outbox EXCEPT ![w] = Tail(@)]
  /\ recv' = [recv EXCEPT ![w] = Append(@, Head(outbox[w]))]
  /\ printed' =
       IF Prints(QuietMode, Head(outbox[w]))
       THEN [printed EXCEPT
               ![w] = Append(@, print(Head(outbox[w]), LongestName(services)))]
       ELSE printed
  /\ UNCHANGED << walkVars, call, result, command, services, QuietMode, conf, cache, SftClient, pc,
                  svc, steps, ops, arg, lastErr, ret, wg, mainPc, sinkPc, crashed >>

\* A variant of WaitReturns: one worker too few was added to the group.
WaitReturnsEarly(counter) == counter <= 1

\* wg.Wait() returns when the counter is zero
WaitReturns(counter) == counter = 0

\* main leaves wg.Wait() and runs the deferred StopPrintOutput
MainWait ==
  /\ ~crashed
  /\ mainPc = "wait"
  /\ WaitReturns(wg)
  /\ mainPc' = "stop"
  /\ UNCHANGED << walkVars, call, result, command, services, QuietMode, conf, cache, SftClient, pc,
                  svc, steps, ops, arg, lastErr, ret, outbox, wg, sinkPc, recv, printed,
                  crashed >>

\* case <-runner.quit: the loop takes the signal and returns, and main,
\* which was blocked sending it, returns
SinkQuit ==
  /\ ~crashed
  /\ sinkPc = "collecting"
  /\ QuitReady(mainPc)
  /\ sinkPc' = "stopped"
  /\ mainPc' = "exit"
  /\ UNCHANGED << walkVars, call, result, command, services, QuietMode, conf, cache, SftClient, pc,
                  svc, steps, ops, arg, lastErr, ret, outbox, wg, recv, printed,
                  crashed >>

(***************************************************************************)
(* Mirroring a local path: Client.WalkDir (src/unnamed/part_002:113-135)   *)
(* and the callbacks of Service.CopyFile and Service.DeleteFile            *)
(* (src/runner/message.go:271-317), entry by entry, over a local tree and  *)
(* the file system of the remote host.                                     *)
(***************************************************************************)
\* the deepest local entry, counted in path elements from srcPath
MaxDepth == 3

\* the names a local directory can hold, in the order os.ReadDir returns
\* them (sorted by name)
FileNames == <<"a", "b">>

\* srcPath and dstDir of the walk
WalkSrc == "a"
WalkDst == "/w"

\* strings.HasSuffix
HasSuffix(s, suffix) ==
  /\ Len(suffix) <= Len(s)
  /\ SubSeq(s, Len(s) - Len(suffix) + 1, Len(s)) = suffix

\* strings.LastIndex(path, "/"), counted from 1; 0 when there is none
LastSlash(path) ==
  LET at == {i \in 1..Len(path) : SubSeq(path, i, i) = "/"}
  IN IF at = {} THEN 0 ELSE CHOOSE i \in at : \A j \in at : j <= i

\* filepath.Split: the directory part, with its trailing separator
SplitDir(path) == SubSeq(path, 1, LastSlash(path))

\* filepath.Base of a clean path
Base(path) == SubSeq(path, LastSlash(path) + 1, Len(path))

\* filepath.Join of clean elements: empty elements are ignored
RECURSIVE JoinPath(_)
JoinPath(elems) ==
  IF elems = <<>> THEN ""
  ELSE LET rest == JoinPath(Tail(elems))
       IN IF Head(elems) = "" THEN rest
          ELSE IF rest = "" THEN Head(elems)
          ELSE Head(elems) \o "/" \o rest

\* The local tree: the kind of every path of at most MaxDepth elements
\* below (and including) srcPath, "none" where there is no entry.  The tree
\* that is "none" everywhere is a srcPath that does not exist.
LocalPaths ==
  {p \in UNION {[1..n -> {FileNames[i] : i \in 1..Len(FileNames)}]
                : n \in 1..MaxDepth} : p[1] = WalkSrc}

LocalTrees ==
  {t \in [LocalPaths -> {"none", "file", "dir"}] :
     \A p \in LocalPaths :
       (Len(p) > 1 /\ t[p] # "none") => t[SubSeq(p, 1, Len(p) - 1)] = "dir"}

\* filepath.WalkDir: the entries in the order they are visited, a directory
\* before its entries and these sorted by name
RECURSIVE ReadDir(_, _, _), Walk(_, _)
ReadDir(t, p, i) ==
  IF i > Len(FileNames) THEN <<>>
  ELSE Walk(t, Append(p, FileNames[i])) \o ReadDir(t, p, i + 1)

Walk(t, p) ==
  IF p \notin LocalPaths THEN <<>>
  ELSE IF t[p] = "none" THEN <<>>
  ELSE <<p>> \o (IF t[p] = "dir" THEN ReadDir(t, p, 1) ELSE <<>>)

\* Client.WalkDir, one call of its callback (part_002:116-133) for the
\* entry at path with the stack dirs: the remote path handed to fn and the
\* stack left behind
WalkDir(stack, path, dstDir, isDir) ==
  LET split == SplitDir(path)
      d == IF split # "" THEN SubSeq(split, 1, Len(split) - 1) ELSE split
      popped == IF ~HasSuffix(d, JoinPath(stack))
                THEN (IF Len(stack) > 0
                      THEN SubSeq(stack, 1, Len(stack) - 1) ELSE stack)
                ELSE stack
  IN [ dstPath |-> JoinPath(<<dstDir, JoinPath(popped), Base(path)>>),
       dirs |-> IF isDir THEN Append(popped, Base(path)) ELSE popped ]

\* The remote file system: a set of entries.  data tells the bytes of a
\* file apart: "before" for a file that was there, "copy" for one CopyFile
\* wrote.
RemoteDir(p) == [path |-> p, dir |-> TRUE, data |-> ""]
RemoteFile(p, data) == [path |-> p, dir |-> FALSE, data |-> data]

Has(fs, p) == \E e \in fs : e.path = p
DirAt(fs, p) == p = "" \/ \E e \in fs : e.path = p /\ e.dir
ParentDir(p) == SubSeq(p, 1, LastSlash(p) - 1)
Ancestors(p) ==
  {SubSeq(p, 1, i - 1) : i \in {j \in 2..Len(p) : SubSeq(p, j, j) = "/"}}
Holds(fs, p) == \E e \in fs : ParentDir(e.path) = p

\* sftp.Client.MkdirAll: the directory and the parents that are missing;
\* an error when an element of the path is a regular file
MkdirAll(fs, p) ==
  LET chain == Ancestors(p) \cup {p}
  IN IF \E q \in chain : Has(fs, q) /\ ~DirAt(fs, q)
     THEN [fs |-> fs, ok |-> FALSE]
     ELSE [fs |-> fs \cup {RemoteDir(q) : q \in {c \in chain : ~Has(fs, c)}},
           ok |-> TRUE]

\* sftp.Client.Create and ReadFrom: the file is created or truncated and
\* written; an error when the path is a directory or its parent is missing
Create(fs, p) ==
  IF DirAt(fs, p) \/ ~DirAt(fs, ParentDir(p))
  THEN [fs |-> fs, ok |-> FALSE]
  ELSE [fs |-> {e \in fs : e.path # p} \cup {RemoteFile(p, "copy")},
        ok |-> TRUE]

\* sftp.Client.Remove: a file or an empty directory
Remove(fs, p) ==
  IF Has(fs, p) /\ ~Holds(fs, p)
  THEN [fs |-> {e \in fs : e.path # p}, ok |-> TRUE]
  ELSE [fs |-> fs, ok |-> FALSE]

\* sftp.Client.RemoveDirectory: an empty directory
RemoveDirectory(fs, p) ==
  IF Has(fs, p) /\ DirAt(fs, p) /\ ~Holds(fs, p)
  THEN [fs |-> {e \in fs : e.path # p}, ok |-> TRUE]
  ELSE [fs |-> fs, ok |-> FALSE]

\* the order in which DeleteFile removes the directories it collected
\* (message.go:313-315)
RemovalOrderForward(collected) == collected

RemovalOrder(collected) ==
  [i \in 1..Len(collected) |-> collected[Len(collected) + 1 - i]]

\* The remote file systems a walk can start from: the destination directory
\* alone; with a file at the mirrored path of srcPath; with a directory there
\* holding a file of a mirrored name; with a directory there holding a file
\* that is not mirrored; and no destination directory.
RemoteStarts ==
  { {RemoteDir(WalkDst)},
    {RemoteDir(WalkDst), RemoteFile(WalkDst \o "/a", "before")},
    {RemoteDir(WalkDst), RemoteDir(WalkDst \o "/a"),
     RemoteFile(WalkDst \o "/a/b", "before")},
    {RemoteDir(WalkDst), RemoteDir(WalkDst \o "/a"),
     RemoteFile(WalkDst \o "/a/z", "before")},
    {} }

\* The entries of the local tree in the order of the walk, and the one the
\* walk is at.
Listing == Walk(localTree, <<WalkSrc>>)
Entry == Listing[widx]
EntryIsDir == localTree[Entry] = "dir"
Visit == WalkDir(dirs, JoinPath(Entry), WalkDst, EntryIsDir)

Visited(p, w, isDir) == [local |-> p, dstPath |-> w.dstPath, dir |-> isDir]
Attempt(p, isDir, ok) == [path |-> p, dir |-> isDir, ok |-> ok]

\* filepath.WalkDir calls the callback with a nil entry when srcPath does
\* not exist, and Client.WalkDir calls info.IsDir() on it (part_002:129)
WalkNil ==
  /\ wpc \in {"copy", "delete"}
  /\ Listing = <<>>
  /\ wpc' = "panic"
  /\ UNCHANGED << mainVars, call, result, localTree, remoteTree, remoteBefore, widx, dirs,
                  directories, visits, attempts, copied >>

\* CopyFile, the callback for one entry (message.go:277-294): MkdirAll for
\* a directory, Create and ReadFrom for a file; an error ends the walk
CopyVisit ==
  /\ wpc = "copy"
  /\ widx <= Len(Listing)
  /\ LET r == IF EntryIsDir THEN MkdirAll(remoteTree, Visit.dstPath)
              ELSE Create(remoteTree, Visit.dstPath)
     IN /\ remoteTree' = r.fs
        /\ wpc' = IF r.ok THEN "copy" ELSE "copied"
        /\ copied' = IF r.ok THEN copied ELSE "failed"
  /\ dirs' = Visit.dirs
  /\ visits' = Append(visits, Visited(Entry, Visit, EntryIsDir))
  /\ widx' = widx + 1
  /\ UNCHANGED << mainVars, call, result, localTree, remoteBefore, directories, attempts >>

\* CopyFile returns nil: the walk has visited every entry
CopyReturn ==
  /\ wpc = "copy"
  /\ Listing # <<>>
  /\ widx > Len(Listing)
  /\ wpc' = "copied"
  /\ copied' = "ok"
  /\ UNCHANGED << mainVars, call, result, localTree, remoteTree, remoteBefore, widx, dirs,
                  directories, visits, attempts >>

\* DeleteFile is called for the path that was copied (message.go:300-304)
DeleteBegin ==
  /\ wpc = "copied"
  /\ wpc' = "delete"
  /\ widx' = 1
  /\ dirs' = <<>>
  /\ visits' = <<>>
  /\ UNCHANGED << mainVars, call, result, localTree, remoteTree, remoteBefore, directories,
                  attempts, copied >>

\* DeleteFile, the callback for one entry (message.go:305-312): a
\* directory is kept for later, a file is removed, and nil is returned
\* whatever Remove returned
DeleteVisit ==
  /\ wpc = "delete"
  /\ widx <= Len(Listing)
  /\ IF EntryIsDir
     THEN /\ directories' = Append(directories, Visit.dstPath)
          /\ UNCHANGED << remoteTree, attempts >>
     ELSE /\ remoteTree' = Remove(remoteTree, Visit.dstPath).fs
          /\ attempts' = Append(attempts,
                                Attempt(Visit.dstPath, FALSE,
                                        Remove(remoteTree, Visit.dstPath).ok))
          /\ UNCHANGED directories
  /\ dirs' = Visit.dirs
  /\ visits' = Append(visits, Visited(Entry, Visit, EntryIsDir))
  /\ widx' = widx + 1
  /\ UNCHANGED << mainVars, call, result, localTree, remoteBefore, wpc, copied >>

\* the walk of DeleteFile has ended and the loop over the directories
\* begins (message.go:313)
DeleteWalked ==
  /\ wpc = "delete"
  /\ Listing # <<>>
  /\ widx > Len(Listing)
  /\ wpc' = "rmdirs"
  /\ widx' = 1
  /\ UNCHANGED << mainVars, call, result, localTree, remoteTree, remoteBefore, dirs,
                  directories, visits, attempts, copied >>

\* one turn of the loop (message.go:313-315): RemoveDirectory, its result
\* dropped
DeleteRmdir ==
  /\ wpc = "rmdirs"
  /\ widx <= Len(directories)
  /\ LET p == RemovalOrder(directories)[widx]
     IN /\ remoteTree' = RemoveDirectory(remoteTree, p).fs
        /\ attempts' = Append(attempts,
                              Attempt(p, TRUE, RemoveDirectory(remoteTree, p).ok))
  /\ widx' = widx + 1
  /\ UNCHANGED << mainVars, call, result, localTree, remoteBefore, wpc, dirs, directories,
                  visits, copied >>

\* DeleteFile returns the error of the walk, which is nil (message.go:316)
DeleteReturn ==
  /\ wpc = "rmdirs"
  /\ widx > Len(directories)
  /\ wpc' = "end"
  /\ UNCHANGED << mainVars, call, result, localTree, remoteTree, remoteBefore, widx, dirs,
                  directories, visits, attempts, copied >>

\* no walk is under way
WalkOff ==
  /\ localTree = [p \in LocalPaths |-> "none"]
  /\ remoteTree = {}
  /\ remoteBefore = {}
  /\ wpc = "off"
  /\ widx = 1
  /\ dirs = <<>>
  /\ directories = <<>>
  /\ visits = <<>>
  /\ attempts = <<>>
  /\ copied = "no"

(***************************************************************************)
(* Functions called on their own, over the inputs they can be given:       *)
(* Service.Exec over Client.Exec (src/runner/message.go:232-235,           *)
(* src/unnamed/part_002:91-110), Service.GenerateServiceFile               *)
(* (message.go:346-394) and Runner.MakeService (src/runner/runner.go).     *)
(***************************************************************************)
NoCall == [fn |-> "none"]

\* strings.TrimSuffix
TrimSuffix(s, suffix) ==
  IF HasSuffix(s, suffix) THEN SubSeq(s, 1, Len(s) - Len(suffix)) ELSE s

\* A variant of ClientExec: the standard output is returned also for a
\* command that failed.
ClientExecStdoutOnly(in) ==
  IF ~in.connected
  THEN [output |-> "", err |-> <<"client is not connected">>, ran |-> FALSE]
  ELSE IF ~in.session
  THEN [output |-> "", err |-> <<"ssh: cannot open session">>, ran |-> FALSE]
  ELSE IF ~in.exit0
  THEN [output |-> in.stdout, err |-> ExecErr(<<in.cmd>>), ran |-> TRUE]
  ELSE [output |-> in.stdout, err |-> NoErr, ran |-> TRUE]

\* Client.Exec (part_002:91-110); ran: did session.Run send the command
ClientExec(in) ==
  IF ~in.connected
  THEN [output |-> "", err |-> <<"client is not connected">>, ran |-> FALSE]
  ELSE IF ~in.session
  THEN [output |-> "", err |-> <<"ssh: cannot open session">>, ran |-> FALSE]
  ELSE IF ~in.exit0
  THEN [output |-> in.stderr, err |-> ExecErr(<<in.cmd>>), ran |-> TRUE]
  ELSE [output |-> in.stdout, err |-> NoErr, ran |-> TRUE]

\* Service.Exec (message.go:232-235)
ServiceExec(in) ==
  [ClientExec(in) EXCEPT !.output = TrimSuffix(@, "\n")]

\* strings.ToUpper, on ASCII text
ToUpper(str) ==
  LET lower == "abcdefghijklmnopqrstuvwxyz"
      upper == "ABCDEFGHIJKLMNOPQRSTUVWXYZ"
      up(r) ==
        IF \E i \in 1..26 : SubSeq(lower, i, i) = r
        THEN LET i == CHOOSE i \in 1..26 : SubSeq(lower, i, i) = r
             IN SubSeq(upper, i, i)
        ELSE r
      RECURSIVE Map(_)
      Map(t) ==
        IF t = "" THEN "" ELSE up(SubSeq(t, 1, 1)) \o Map(SubSeq(t, 2, Len(t)))
  IN Map(str)

\* A variant of serviceNameToEnvName: no underscore is put before a digit.
serviceNameToEnvNameNoPrefix(serviceName) ==
  LET alnum ==
        "ABCDEFGHIJKLMNOPQRSTUVWXYZabcdefghijklmnopqrstuvwxyz0123456789"
      trim(r) ==
        IF \E i \in 1..Len(alnum) : SubSeq(alnum, i, i) = r THEN r ELSE "_"
      RECURSIVE Map(_)
      Map(t) ==
        IF t = "" THEN ""
        ELSE trim(SubSeq(t, 1, 1)) \o Map(SubSeq(t, 2, Len(t)))
  IN IF Len(serviceName) = 0 THEN "" ELSE ToUpper(Map(serviceName))

\* serviceNameToEnvName (runner.go:316-336), on ASCII names
serviceNameToEnvName(serviceName) ==
  LET alnum ==
        "ABCDEFGHIJKLMNOPQRSTUVWXYZabcdefghijklmnopqrstuvwxyz0123456789"
      digits == "0123456789"
      trim(r) ==
        IF \E i \in 1..Len(alnum) : SubSeq(alnum, i, i) = r THEN r ELSE "_"
      RECURSIVE Map(_)
      Map(t) ==
        IF t = "" THEN ""
        ELSE trim(SubSeq(t, 1, 1)) \o Map(SubSeq(t, 2, Len(t)))
      mapped == ToUpper(Map(serviceName))
  IN IF Len(serviceName) = 0 THEN ""
     ELSE IF \E i \in 1..Len(digits) :
               SubSeq(digits, i, i) = SubSeq(mapped, 1, 1)
          THEN "_" \o mapped
          ELSE mapped

\* loadConfFromEnv (runner.go:271-294) for the record of one service: env
\* gives the variables that are set, os.Getenv the empty text for the
\* others.  yaml is the tag of each field; a field that is neither an int
\* nor a string (copy_files) is left alone.
loadConfFromEnv(serviceName, c, env) ==
  LET yaml ==
        [User |-> "user", Host |-> "host", Port |-> "port",
         PrivateKeyPath |-> "private_key_path",
         GoExecPath |-> "go_exec_path",
         GoBinDirectory |-> "go_bin_directory",
         GoPrivate |-> "go_private", SystemdPath |-> "systemd_path",
         SystemdServicesDirectory |-> "systemd_services_directory",
         SystemdLingerDirectory |-> "systemd_linger_directory",
         ExecStart |-> "exec_start",
         WorkingDirectory |-> "working_directory",
         Environment |-> "environment", LogPath |-> "log_path",
         RunAfterService |-> "run_after_service",
         StartLimitBurst |-> "start_limit_burst",
         StartLimitIntervalSec |-> "start_limit_interval_sec",
         RestartSec |-> "restart_sec"]
      ints == {"StartLimitBurst", "StartLimitIntervalSec", "RestartSec"}
      Getenv(k) == IF k \in DOMAIN env THEN env[k] ELSE ""
      envValue(f) ==
        Getenv(serviceNameToEnvName(serviceName) \o "_" \o ToUpper(yaml[f]))
      digits == "0123456789"
      Digit(r) == (CHOOSE i \in 1..10 : SubSeq(digits, i, i) = r) - 1
      IsDigits(t) ==
        /\ t # ""
        /\ \A j \in 1..Len(t) :
             \E i \in 1..10 : SubSeq(digits, i, i) = SubSeq(t, j, j)
      RECURSIVE Value(_)
      Value(t) ==
        IF t = "" THEN 0
        ELSE 10 * Value(SubSeq(t, 1, Len(t) - 1))
               + Digit(SubSeq(t, Len(t), Len(t)))
      signed(t) == SubSeq(t, 1, 1) \in {"+", "-"}
      \* strconv.Atoi: an optional sign, then digits only
      Atoi(t) ==
        LET body == IF signed(t) THEN SubSeq(t, 2, Len(t)) ELSE t
        IN IF ~IsDigits(body) THEN [ok |-> FALSE, n |-> 0]
           ELSE [ok |-> TRUE,
                 n |-> IF SubSeq(t, 1, 1) = "-" THEN 0 - Value(body)
                       ELSE Value(body)]
  IN [f \in DOMAIN c |->
        IF f \notin DOMAIN yaml \/ envValue(f) = "" THEN c[f]
        ELSE IF f \in ints
             THEN IF Atoi(envValue(f)).ok THEN Atoi(envValue(f)).n ELSE c[f]
             ELSE envValue(f)]

CallExec ==
  /\ call.fn = "Exec"
  /\ result = NoCall
  /\ result' = ServiceExec(call)
  /\ UNCHANGED << mainVars, walkVars, call >>

CallGenerateServiceFile ==
  /\ call.fn = "GenerateServiceFile"
  /\ result = NoCall
  /\ result' = [text |-> GenerateServiceFile(call.name, call.conf)]
  /\ UNCHANGED << mainVars, walkVars, call >>

CallMakeService ==
  /\ call.fn = "MakeService"
  /\ result = NoCall
  /\ \E o \in MakeService(TRUE, call.conf, 1) : result' = o
  /\ UNCHANGED << mainVars, walkVars, call >>

CallLoadConfFromEnv ==
  /\ call.fn = "loadConfFromEnv"
  /\ result = NoCall
  /\ result' = [conf |-> loadConfFromEnv(call.name, call.conf, call.env)]
  /\ UNCHANGED << mainVars, walkVars, call >>

(***************************************************************************)
(* The runs.                                                               *)
(***************************************************************************)
RECURSIVE SeqsUpTo(_, _)
SeqsUpTo(S, n) ==
  IF n = 0 THEN {<<>>}
  ELSE LET shorter == SeqsUpTo(S, n - 1)
       IN shorter \cup {Append(q, x) : q \in shorter, x \in S}

\* The goroutines of main are interchangeable (the same body, indexed only
\* by the service name), so one list stands for its permutations: the lists
\* drawn are the ones in the order of NameOrder.
NameOrder == <<"api", "ghost", "nohost", "nopkg", "web">>

InOrder(q) ==
  \A i \in 1..Len(q) - 1 : IndexOf(NameOrder, q[i]) <= IndexOf(NameOrder, q[i + 1])

ServiceLists ==
  {q \in SeqsUpTo(ServiceNames, MaxWorkers) : q # <<>> /\ InOrder(q)}

Init ==
  /\ command \in availableCommands
  /\ services \in ServiceLists
  /\ QuietMode \in BOOLEAN
  /\ conf = ConfFile
  /\ cache = [n \in {} |-> NoService]
  /\ SftClient = [w \in Workers |-> FALSE]
  /\ pc = [w \in Workers |-> "MakeService"]
  /\ svc = [w \in Workers |-> NoService]
  /\ steps = [w \in Workers |-> <<>>]
  /\ ops = [w \in Workers |-> <<>>]
  /\ arg = [w \in Workers |-> NoArg]
  /\ lastErr = [w \in Workers |-> NoErr]
  /\ ret = [w \in Workers |-> NoErr]
  /\ outbox = [w \in Workers |-> <<>>]
  /\ wg = Len(services)
  /\ mainPc = "wait"
  /\ sinkPc = "collecting"
  /\ recv = [w \in Workers |-> <<>>]
  /\ printed = [w \in Workers |-> <<>>]
  /\ crashed = FALSE
  /\ WalkOff
  /\ call = NoCall /\ result = NoCall

NextOne ==
  \/ \E w \in Workers : WorkerMakeService(w)
  \/ \E w \in Workers : WorkerSaveCache(w)
  \/ \E w \in Workers : WorkerCheckGo(w)
  \/ \E w \in Workers : WorkerCheckSystemd(w)
  \/ \E w \in Workers : WorkerCheckLingering(w)
  \/ \E w \in Workers : WorkerCheckWorkingDir(w)
  \/ \E w \in Workers : WorkerAuthPrivateRepo(w)
  \/ \E w \in Workers : WorkerInstallExecutable(w)
  \/ \E w \in Workers : WorkerCopyFiles(w)
  \/ \E w \in Workers : WorkerCreateServiceFile(w)
  \/ \E w \in Workers : WorkerReloadDaemon(w)
  \/ \E w \in Workers : WorkerEnableService(w)
  \/ \E w \in Workers : WorkerStopService(w)
  \/ \E w \in Workers : WorkerDisableService(w)
  \/ \E w \in Workers : WorkerDeleteServiceFile(w)
  \/ \E w \in Workers : WorkerResetFailedServices(w)
  \/ \E w \in Workers : WorkerDeleteExecutable(w)
  \/ \E w \in Workers : WorkerDeleteFiles(w)
  \/ \E w \in Workers : WorkerStartService(w)
  \/ \E w \in Workers : WorkerRestartService(w)
  \/ \E w \in Workers : WorkerStatusService(w)
  \/ \E w \in Workers : WorkerShowServiceFile(w)
  \/ \E w \in Workers : WorkerDone(w)
  \/ \E w \in Workers : WorkerPanic(w)
  \/ \E w \in Workers : SinkReceive(w)
  \/ MainWait
  \/ SinkQuit

\* The steps of main with several workers: those of one worker, and the
\* access of two workers to the services cache at the same time.
Next ==
  \/ NextOne
  \/ \E w \in Workers : WorkerCacheRace(w)

Spec == Init /\ [][Next]_vars

\* The runs of main with one service named on the command line.
InitOne == Init /\ Len(services) = 1
SpecOne == InitOne /\ [][NextOne]_vars

\* The runs of main with one service under a fair scheduler: a goroutine
\* that can take a step takes one in the end, and every remote call
\* returns (each step of NextOne stands for a call that returned).
FairSpecOne == SpecOne /\ WF_vars(NextOne)

\* The calls CopyFile(WalkSrc, WalkDst) then DeleteFile(WalkSrc, WalkDst),
\* or DeleteFile alone, of one Service on its own: no worker of main runs.
InitWalk ==
  /\ command = "install"
  /\ services = <<>>
  /\ QuietMode = FALSE
  /\ conf = ConfFile
  /\ cache = [n \in {} |-> NoService]
  /\ SftClient = <<>>
  /\ pc = <<>>
  /\ svc = <<>>
  /\ steps = <<>>
  /\ ops = <<>>
  /\ arg = <<>>
  /\ lastErr = <<>>
  /\ ret = <<>>
  /\ outbox = <<>>
  /\ wg = 0
  /\ mainPc = "exit"
  /\ sinkPc = "stopped"
  /\ recv = <<>>
  /\ printed = <<>>
  /\ crashed = FALSE
  /\ localTree \in LocalTrees
  /\ remoteTree \in RemoteStarts
  /\ remoteBefore = remoteTree
  /\ wpc \in {"copy", "delete"}
  /\ widx = 1
  /\ dirs = <<>>
  /\ directories = <<>>
  /\ visits = <<>>
  /\ attempts = <<>>
  /\ copied = "no"
  /\ call = NoCall /\ result = NoCall

NextWalk ==
  \/ WalkNil
  \/ CopyVisit
  \/ CopyReturn
  \/ DeleteBegin
  \/ DeleteVisit
  \/ DeleteWalked
  \/ DeleteRmdir
  \/ DeleteReturn

SpecWalk == InitWalk /\ [][NextWalk]_vars

\* A variant of GetServiceNames: the ignore flag is not read.
GetServiceNamesAll(ignore) ==
  {q \in SeqsUpTo(DOMAIN ignore, Cardinality(DOMAIN ignore)) :
     /\ Len(q) = Cardinality(DOMAIN ignore)
     /\ \A i, j \in DOMAIN q : q[i] = q[j] => i = j}

\* Runner.GetServiceNames (runner.go:82-92): ignore gives the ignore flag of
\* every key of r.conf.  The range over the map visits every key once, in an
\* order that is not fixed: the slices it can return.
GetServiceNames(ignore) ==
  LET names == {n \in DOMAIN ignore : ~ignore[n]}
  IN {q \in SeqsUpTo(names, Cardinality(names)) :
        /\ Len(q) = Cardinality(names)
        /\ \A i, j \in DOMAIN q : q[i] = q[j] => i = j}

\* main (main.go:96, 110-117): the services named on the command line, or
\* the ones of GetServiceNames when none is named; wg.Add(len(services))
\* and one goroutine for each.
CallDispatch ==
  /\ call.fn = "main"
  /\ result = NoCall
  /\ IF Len(call.args) = 0
     THEN \E q \in GetServiceNames(call.ignore) :
            result' = [services |-> q, wg |-> Len(q)]
     ELSE result' = [services |-> call.args, wg |-> Len(call.args)]
  /\ UNCHANGED << mainVars, walkVars, call >>

\* Service.AuthPrivateRepo (part_001:255-276) with the remote ~/.netrc it
\* reads and writes.  netrc is the file: does it exist, and its lines; auth
\* the entry of the service; cat and echo tell whether the two commands
\* succeed (cat fails on a file that does not exist).  The output of cat is
\* the text of the file; echo with > replaces the file by the entry followed
\* by that output, or by the entry alone after a cat that failed.
AuthPrivateRepoNetrc(goPrivate, auth, netrc, cat, echo) ==
  LET RECURSIVE Text(_)
      Text(lines) ==
        IF lines = <<>> THEN ""
        ELSE IF Len(lines) = 1 THEN lines[1]
        ELSE lines[1] \o "\n" \o Text(Tail(lines))
      Contains(str, sub) ==
        \E i \in 1..(Len(str) - Len(sub) + 1) :
          SubSeq(str, i, i + Len(sub) - 1) = sub
      read == netrc.exists /\ cat
      output == IF read THEN Text(netrc.lines) ELSE "cat: ~/.netrc: error"
      written ==
        [exists |-> TRUE,
         lines |-> IF read THEN <<auth>> \o netrc.lines ELSE <<auth>>]
  IN IF goPrivate = "" THEN [netrc |-> netrc, err |-> NoErr, cmds |-> <<>>]
     ELSE IF Contains(output, auth)
     THEN [netrc |-> netrc, err |-> NoErr, cmds |-> <<"cat">>]
     ELSE IF echo
     THEN [netrc |-> written, err |-> NoErr, cmds |-> <<"cat", "echo">>]
     ELSE [netrc |-> netrc, err |-> ExecErr(<<"echo > ~/.netrc">>),
           cmds |-> <<"cat", "echo">>]

\* AuthPrivateRepo called once, and once more on the file the first call
\* left.
CallAuthPrivateRepo ==
  /\ call.fn = "AuthPrivateRepo"
  /\ \/ result = NoCall
     \/ result # NoCall /\ result.runs = 1
  /\ \E cat \in BOOLEAN, echo \in BOOLEAN :
       LET before == IF result = NoCall THEN call.netrc ELSE result.netrc
           out == AuthPrivateRepoNetrc(call.goPrivate, call.auth, before,
                                       cat, echo)
       IN result' = [netrc |-> out.netrc, err |-> out.err, cmds |-> out.cmds,
                     before |-> before, cat |-> cat,
                     ok |-> (result = NoCall \/ result.ok) /\ out.err = NoErr,
                     runs |-> IF result = NoCall THEN 1 ELSE 2]
  /\ UNCHANGED << mainVars, walkVars, call >>

\* Runner.StartPrintOutput (runner.go:217-234) on the messages it takes
\* from the channel, one after the other: the width is computed once from
\* the services it is given, and every message that passes the quiet filter
\* is printed with it.
CallStartPrintOutput ==
  /\ call.fn = "StartPrintOutput"
  /\ result = NoCall
  /\ result' =
       [lines |->
          LET taken == SelectSeq(call.msgs, LAMBDA m : Prints(call.quiet, m))
          IN [i \in DOMAIN taken |->
                print(taken[i], LongestName(call.services))]]
  /\ UNCHANGED << mainVars, walkVars, call >>

\* Service.ParseCommand (message.go:256-266): cmd is the template as its
\* parts in order, a text or the field of Conf an action {{.Field}} names;
\* html/template escapes the value of the field, the text is kept.
ParseCommand(cmd, c) ==
  LET RECURSIVE Execute(_)
      Execute(parts) ==
        IF parts = <<>> THEN ""
        ELSE (IF Head(parts).k = "text" THEN Head(parts).v
              ELSE HTMLEscape(c[Head(parts).v])) \o Execute(Tail(parts))
  IN Execute(cmd)

CallParseCommand ==
  /\ call.fn = "ParseCommand"
  /\ result = NoCall
  /\ result' = [cmd |-> ParseCommand(call.cmd, call.conf)]
  /\ UNCHANGED << mainVars, walkVars, call >>

\* One call of Service.Exec, GenerateServiceFile or MakeService on its own:
\* no worker of main runs and no walk is under way.  Exec is given a client
\* that is connected or not, that can open a session or not, a command that
\* exits with 0 or not and what the command wrote; GenerateServiceFile a
\* Conf with the defaults resolved and every optional value set or not;
\* MakeService a Conf whose go_install has a version suffix or not, with
\* exec_start and working_directory set or not.
InitCalls ==
  LET ExecStreams == {"", "\n", "out", "out\n", "out\n\n"}
      ExecCalls ==
        { [fn |-> "Exec", cmd |-> "pwd", connected |-> cn, session |-> se,
           exit0 |-> ex, stdout |-> so, stderr |-> sr]
          : cn \in BOOLEAN, se \in BOOLEAN, ex \in BOOLEAN,
            so \in ExecStreams, sr \in ExecStreams }
      RenderBase ==
        [MkConf("pioz", "10.0.0.1", Pkg("web", "latest"), "",
                "/home/pioz/go/bin", RemoteHome, "", <<>>)
           EXCEPT !.ExecStart = "/home/pioz/go/bin/web"]
      RenderConfs ==
        { [RenderBase EXCEPT !.RunAfterService = after,
                             !.StartLimitBurst = burst,
                             !.StartLimitIntervalSec = interval,
                             !.RestartSec = restart, !.Environment = env,
                             !.LogPath = log]
          : after \in {"", "db.service"}, burst \in {0, 5},
            interval \in {0, 10}, restart \in {0, 3},
            env \in {"", "PORT=80", "OPTS=\"a&b\""}, log \in {"", "/var/log/web.log"} }
      MaterializeConfs ==
        { [MkConf("pioz", "10.0.0.1", pkg, "", "/home/pioz/go/bin", dir, "",
                  <<>>)
             EXCEPT !.ExecStart = start]
          : pkg \in {Pkg("web", "latest"), Pkg("web", "")},
            dir \in {"", "/srv/web"}, start \in {"", "/opt/web"} }
      \* loadConfFromEnv: a service name, the record of the file, and two
      \* variables of the environment, named after a string field and
      \* after an int field of this or of another service
      EnvCalls ==
        { [fn |-> "loadConfFromEnv", name |-> n,
           conf |-> [ConfFile["api"] EXCEPT !.RestartSec = 2],
           env |-> (ku :> vu) @@ (ki :> vi)]
          : n \in {"web", "my-app", "9lives", "Api.v2"},
            ku \in {"WEB_USER", "MY_APP_USER", "_9LIVES_USER", "9LIVES_USER",
                    "API_V2_USER", "my-app_USER", "WEB_user"},
            vu \in {"", "root"},
            ki \in {"WEB_RESTART_SEC", "MY_APP_RESTART_SEC",
                    "_9LIVES_RESTART_SEC", "API_V2_RESTART_SEC",
                    "API.V2_RESTART_SEC"},
            vi \in {"", "12", "-3", "+7", "abc", "1x", "-"} }
  IN
  /\ command = "install"
  /\ services = <<>>
  /\ QuietMode = FALSE
  /\ conf = ConfFile
  /\ cache = [n \in {} |-> NoService]
  /\ SftClient = <<>>
  /\ pc = <<>>
  /\ svc = <<>>
  /\ steps = <<>>
  /\ ops = <<>>
  /\ arg = <<>>
  /\ lastErr = <<>>
  /\ ret = <<>>
  /\ outbox = <<>>
  /\ wg = 0
  /\ mainPc = "exit"
  /\ sinkPc = "stopped"
  /\ recv = <<>>
  /\ printed = <<>>
  /\ crashed = FALSE
  /\ WalkOff
  /\ call \in ExecCalls
        \cup {[fn |-> "GenerateServiceFile", name |-> "web", conf |-> c]
              : c \in RenderConfs}
        \cup {[fn |-> "MakeService", name |-> "web", conf |-> c]
              : c \in MaterializeConfs}
        \cup EnvCalls
        \cup {[fn |-> "AuthPrivateRepo", goPrivate |-> gp,
               auth |-> "machine h login u password p",
               netrc |-> [exists |-> q # <<"">>,
                          lines |-> IF q = <<"">> THEN <<>> ELSE q]]
              : gp \in {"", "corp.example"},
                q \in {<<"">>} \cup
                  SeqsUpTo({"machine h login u password p",
                            "machine h login u password p2",
                            "machine g login v password q"}, 2)}
        \cup {[fn |-> "StartPrintOutput", services |-> q, quiet |-> qm,
               msgs |-> <<[serviceName |-> n1, text |-> <<"go version">>,
                           status |-> MessageNormal],
                          [serviceName |-> n2, text |-> <<"exit status 1">>,
                           status |-> st]>>]
              : q \in SeqsUpTo({"api", "nohost"}, 2), qm \in BOOLEAN,
                n1 \in {"api", "nohost", "long-name"},
                n2 \in {"api", "nohost", "long-name"},
                st \in {MessageError, MessageSuccess}}
        \cup {[fn |-> "ParseCommand", cmd |-> t,
               conf |-> [RenderBase EXCEPT !.WorkingDirectory = dir,
                                           !.ExecStart = start]]
              : t \in {<<[k |-> "text", v |-> "mkdir -p "],
                          [k |-> "field", v |-> "WorkingDirectory"]>>,
                        <<[k |-> "text", v |-> "rm "],
                          [k |-> "field", v |-> "ExecStart"]>>,
                        <<[k |-> "text", v |-> "test -e "],
                          [k |-> "field", v |-> "WorkingDirectory"],
                          [k |-> "text", v |-> " && file "],
                          [k |-> "field", v |-> "ExecStart"]>>},
                dir \in {"/srv/web", "/srv/R&D", "/srv/joe's <new>"},
                start \in {"/opt/web", "/opt/web --name=\"a+b\""}}
        \cup {[fn |-> "main", args |-> q, ignore |-> ig]
              : q \in SeqsUpTo({"web", "api", "db"}, 2),
                ig \in [{"web", "api", "db"} -> BOOLEAN]}
  /\ result = NoCall

NextCalls ==
  \/ CallExec
  \/ CallGenerateServiceFile
  \/ CallMakeService
  \/ CallLoadConfFromEnv
  \/ CallDispatch
  \/ CallAuthPrivateRepo
  \/ CallStartPrintOutput
  \/ CallParseCommand

SpecCalls == InitCalls /\ [][NextCalls]_vars

(***************************************************************************)
(* Properties.                                                             *)
(***************************************************************************)
\* the latest call worker w made, "" before the first
LastCall(w) == IF steps[w] = <<>> THEN "" ELSE steps[w][Len(steps[w])]
\* how often worker w made the call
Calls(w, step) == Cardinality({i \in 1..Len(steps[w]) : steps[w][i] = step})
\* the calls of worker w after MakeService
Lifecycle(w) == IF steps[w] = <<>> THEN <<>> ELSE Tail(steps[w])
IsPrefix(p, q) == Len(p) <= Len(q) /\ p = SubSeq(q, 1, Len(p))
\* the worker is back from its lifecycle call, or gone
Returned(w) == pc[w] \in {"done", "exited"}

InstallOrder ==
  << "CheckGo", "CheckSystemd", "CheckLingering", "CheckWorkingDir",
     "AuthPrivateRepo", "InstallExecutable", "CopyFiles", "CreateServiceFile",
     "ReloadDaemon", "EnableService" >>
UninstallOrder ==
  << "StopService", "DisableService", "DeleteServiceFile", "ReloadDaemon",
     "ResetFailedServices", "DeleteExecutable", "DeleteFiles" >>
InSeq(x, q) == \E i \in 1..Len(q) : q[i] = x

\* C1: Install is fail-fast.  When a step of Install has returned an error,
\* Install is at its return with exactly that error, and from its return on
\* the worker makes no further call: no later step issues a remote action.
C1_FailFast ==
  /\ [](\A w \in Workers :
         (command = "install" /\ InSeq(LastCall(w), InstallOrder)
            /\ lastErr[w] # NoErr /\ pc[w] # "panic")
         => (pc[w] = "done" /\ ret[w] = lastErr[w]))
  /\ [][\A w \in Workers :
          Returned(w) => (Returned(w)' /\ steps'[w] = steps[w]
                          /\ Len(outbox'[w]) <= Len(outbox[w])
                          /\ Remotes(ops'[w]) \in {Remotes(ops[w]), <<>>})]_vars

\* C1 witness: the third step of Install failed, and Install returned its
\* error after the three calls.
C1_Witness ==
  \E w \in Workers :
    /\ command = "install" /\ pc[w] = "done"
    /\ steps[w] = <<"MakeService", "CheckGo", "CheckSystemd", "CheckLingering">>
    /\ lastErr[w] # NoErr /\ ret[w] = lastErr[w]

\* C2: the calls Install makes form a prefix of the fixed order, each made
\* once, and a step is only about to run when the one before it succeeded.
C2_InstallPrefix ==
  \A w \in Workers :
    command = "install" =>
      /\ IsPrefix(Lifecycle(w), InstallOrder)
      /\ \A i \in 1..Len(InstallOrder) : Calls(w, InstallOrder[i]) <= 1
      /\ InSeq(pc[w], InstallOrder) =>
            /\ lastErr[w] = NoErr
            /\ Lifecycle(w) \o <<pc[w]>> =
                 SubSeq(InstallOrder, 1, Len(Lifecycle(w)) + 1)

\* C2 witness: a run of Install through all ten steps.
C2_Witness ==
  \E w \in Workers :
    /\ command = "install" /\ pc[w] = "done"
    /\ Lifecycle(w) = InstallOrder /\ ret[w] = NoErr

\* C3: Uninstall is best-effort.  A failed step is followed by the next step
\* all the same, so when Uninstall is over each of the seven steps has been
\* made exactly once, and never more than once before.
C3_BestEffort ==
  \A w \in Workers :
    (command = "uninstall" /\ Len(steps[w]) > 1) =>
      /\ \A i \in 1..Len(UninstallOrder) :
           /\ Calls(w, UninstallOrder[i]) <= 1
           /\ Returned(w) => Calls(w, UninstallOrder[i]) = 1
      /\ (lastErr[w] # NoErr /\ pc[w] # "panic") => ~Returned(w)

\* C3 witness: the stop failed and the worker is about to disable the unit.
C3_Witness ==
  \E w \in Workers :
    /\ command = "uninstall" /\ LastCall(w) = "StopService"
    /\ lastErr[w] # NoErr /\ pc[w] = "DisableService"

\* an item of DeleteFiles about a mirrored file
AuxItem(it, c) ==
  \/ it.k = "event" /\ it.text[1] \in {"Deleting files", "cannot delete file",
                                       "All files deleted"}
  \/ it.k = "remote" /\ \E i \in 1..Len(c.CopyFiles) :
        it.text = "unmirror " \o c.CopyFiles[i] \o " from " \o c.WorkingDirectory
\* an item of DeleteFiles about the log file or the working directory
LogOrDirItem(it, c) ==
  \/ it.k = "event" /\ it.text[1] \in
        {"Deleting log file", "Cannot delete log file", "Deleted",
         "Deleting service working directory",
         "Cannot delete service working directory"}
  \/ it.k = "remote" /\ it.text \in {"sftp.Remove " \o c.LogPath,
                                      "sftp.Remove " \o c.WorkingDirectory}

\* C4: Uninstall makes its calls in the order stop, disable, delete unit
\* file, daemon reload, reset-failed, delete executable, delete files; and
\* DeleteFiles touches the log file and the working directory only when
\* removeWorkingDirectory is true, and only after it is through with the
\* mirrored files.
C4_UninstallOrder ==
  \A w \in Workers :
    command = "uninstall" =>
      /\ IsPrefix(Lifecycle(w), UninstallOrder)
      /\ InSeq(pc[w], UninstallOrder) =>
            Lifecycle(w) \o <<pc[w]>> =
              SubSeq(UninstallOrder, 1, Len(Lifecycle(w)) + 1)
      /\ (LastCall(w) = "DeleteFiles" /\ pc[w] # "exited") =>
            /\ arg[w] \in {"true", "false"}
            /\ arg[w] = "false" =>
                  \A i \in 1..Len(ops[w]) : ~LogOrDirItem(ops[w][i], Cfg(w))
            /\ \A i, j \in 1..Len(ops[w]) :
                  (LogOrDirItem(ops[w][i], Cfg(w)) /\ AuxItem(ops[w][j], Cfg(w)))
                  => j < i

\* C4 witness: DeleteFiles, told to remove the working directory, went
\* through the mirrored files and then on to the working directory.
C4_Witness ==
  \E w \in Workers :
    /\ command = "uninstall" /\ LastCall(w) = "DeleteFiles"
    /\ Lifecycle(w) = UninstallOrder /\ arg[w] = "true"
    /\ \E i, j \in 1..Len(ops[w]) :
         /\ j < i
         /\ AuxItem(ops[w][j], Cfg(w)) /\ ops[w][j].k = "remote"
         /\ LogOrDirItem(ops[w][i], Cfg(w)) /\ ops[w][i].k = "remote"

\* what worker w has passed to SendMessage in its latest call, received or
\* still being sent
Sent(w) == recv[w] \o outbox[w]
ErrorEvent(name, err) ==
  [serviceName |-> name, text |-> err, status |-> "error"]

\* C7: when MakeService returns an error the worker sends exactly one event,
\* an error event with that error as its text, and makes no lifecycle call:
\* it is at its return, and stays there until it is gone.
C7_MaterializeError ==
  /\ [](\A w \in Workers :
         (LastCall(w) = "MakeService" /\ lastErr[w] # NoErr) =>
           /\ pc[w] = "done" /\ steps[w] = <<"MakeService">>
           /\ Sent(w) = <<ErrorEvent(Name(w), lastErr[w])>>)
  /\ [][\A w \in Workers :
          (pc[w] = "done" /\ steps[w] = <<"MakeService">>) =>
            /\ steps'[w] = steps[w] /\ pc'[w] \in {"done", "exited"}
            /\ Sent(w)' = IF pc'[w] = "done" THEN Sent(w) ELSE <<>>]_vars

\* C7 witness: a refused connection, reported and received as the one
\* event of the worker.
C7_Witness ==
  \E w \in Workers :
    /\ steps[w] = <<"MakeService">> /\ pc[w] = "done"
    /\ lastErr[w] = <<"dial tcp: connection refused">>
    /\ outbox[w] = <<>>
    /\ recv[w] = <<ErrorEvent(Name(w), lastErr[w])>>

\* a name the configuration file cannot materialize: absent, or a record
\* without host or without go_install
ConfigError(n) ==
  \/ n \notin DOMAIN ConfFile
  \/ ConfFile[n].Host = ""
  \/ ConfFile[n].GoInstall = NoPkg

\* C8: for a name that is absent from the configuration or whose record
\* has no host or no go_install, MakeService returns an error having made
\* no SSH client, no connection and no remote command, and the name is
\* never in the cache.
C8_ConfigRejected ==
  \A w \in Workers :
    ConfigError(Name(w)) =>
      /\ \A i \in 1..Len(ops[w]) : ops[w][i].k \notin {"client", "remote"}
      /\ Name(w) \notin DOMAIN cache
      /\ svc[w] = NoService
      /\ pc[w] \in {"MakeService", "done", "exited"}
      /\ pc[w] = "done" => lastErr[w] # NoErr

\* C8 witness: MakeService has rejected the record without go_install.
C8_Witness ==
  \E w \in Workers :
    /\ Name(w) = "nopkg" /\ pc[w] = "done"
    /\ lastErr[w] = <<"required configuration go_install value is missing">>

\* the events a call hands to SendMessage, as messages of the named service
Handed(name, items) ==
  [i \in 1..Len(Events(items)) |->
     [serviceName |-> name, text |-> Events(items)[i].text,
      status |-> Events(items)[i].status]]
\* the lines the loop owes for what it received, subject to quiet mode
Owed(w) ==
  LET kept == SelectSeq(recv[w], LAMBDA m : ~QuietMode \/ m.status = "error")
  IN [i \in 1..Len(kept) |-> print(kept[i], LongestName(services))]

\* C5: no event is lost.  What a worker has passed to SendMessage is, in
\* order, what the loop has received from it followed by what it is still
\* sending; what the loop received it has printed, subject to quiet mode;
\* and when the loop has taken the quit signal and returned no worker is
\* left with an event it has not delivered.
C5_NoEventLoss ==
  \A w \in Workers :
    /\ Sent(w) = Handed(Name(w), ops[w])
    /\ printed[w] = Owed(w)
    /\ pc[w] = "exited" => outbox[w] = <<>>
    /\ sinkPc = "stopped" => outbox[w] = <<>>

\* C5 witness: two workers have each made lifecycle calls and sent their
\* events, and the loop has taken the quit signal.
C5_Witness ==
  /\ sinkPc = "stopped" /\ Len(services) = MaxWorkers
  /\ \A w \in Workers : Len(steps[w]) > 1 /\ outbox[w] = <<>>

\* C6: the sink is collecting or stopped; it leaves collecting only by
\* taking the quit signal main is blocked sending; and main is past
\* wg.Wait() only when every worker it started is gone, with nothing left
\* to send.
C6_SinkStates ==
  /\ [](sinkPc \in {"collecting", "stopped"})
  /\ [](mainPc \in {"stop", "exit"} =>
         (wg = 0 /\ \A w \in Workers : pc[w] = "exited" /\ outbox[w] = <<>>))
  /\ [][sinkPc' # sinkPc =>
          (sinkPc = "collecting" /\ sinkPc' = "stopped"
           /\ mainPc = "stop" /\ mainPc' = "exit")]_vars

\* C6 witness: the sink stopped after main waited for both workers.
C6_Witness ==
  sinkPc = "stopped" /\ mainPc = "exit" /\ wg = 0 /\ Len(services) = MaxWorkers

\* worker w has made a client, connected or run a remote command in its
\* latest call
RemoteWork(w) ==
  \E i \in 1..Len(ops[w]) : ops[w][i].k \in {"client", "remote"}

\* C9 as stated: in a run where some dispatched name has a configuration
\* error, no connection or remote command is performed for any service.
C9_NoRemoteWorkInRun ==
  (\E w \in Workers : ConfigError(Name(w))) =>
    \A v \in Workers : ~RemoteWork(v)

\* C9, amended: a configuration error is fatal for the service that has it,
\* before any remote work for that service: its worker never connects, runs
\* no remote command and makes no lifecycle call, and its record is left as
\* read.  The other services of the run are not held back by it.
C9_ConfigErrorLocal ==
  \A w \in Workers :
    ConfigError(Name(w)) =>
      /\ ~RemoteWork(w)
      /\ Len(steps[w]) <= 1
      /\ SftClient[w] = FALSE
      /\ Name(w) \in DOMAIN ConfFile => conf[Name(w)] = ConfFile[Name(w)]

\* C9 witness: one name of the run was rejected for its configuration, and
\* the worker of the other name is doing remote work.
C9_Witness ==
  \E w, v \in Workers :
    /\ ConfigError(Name(w)) /\ pc[w] = "exited"
    /\ ~ConfigError(Name(v)) /\ Len(steps[v]) > 1 /\ RemoteWork(v)

\* C10 as stated: a failure in the worker of service A never escapes it, so
\* the worker of another service B still runs to its own completion.  A
\* worker that has not finished is never stopped by the panic of another.
C10_Isolation ==
  \A a, b \in Workers :
    (Name(a) # Name(b) /\ pc[a] = "panic" /\ crashed) => pc[b] = "exited"


(***************************************************************************)
(* C11: output is serialized. A step of the program writes at most one     *)
(* line: the line is the rendering of the message at the head of one       *)
(* worker's blocked send, taken by the loop of StartPrintOutput, and no    *)
(* other worker's lines change in that step. A worker's own step (a        *)
(* lifecycle call) writes no line.                                         *)
(***************************************************************************)
Wrote(w) == printed'[w] # printed[w] /\ printed'[w] # <<>>

C11_Serialized ==
  [][\A w \in Workers :
       Wrote(w) =>
         /\ sinkPc = "collecting" /\ sinkPc' = "collecting"
         /\ outbox[w] # <<>>
         /\ outbox' = [outbox EXCEPT ![w] = Tail(@)]
         /\ printed'[w] =
              Append(printed[w], print(Head(outbox[w]), LongestName(services)))
         /\ steps' = steps /\ pc' = pc
         /\ \A v \in Workers \ {w} : printed'[v] = printed[v]]_vars

\* two workers are blocked sending while lines of one of them are out
C11_Witness ==
  \E w, v \in Workers :
    /\ w # v
    /\ printed[w] # <<>> /\ outbox[w] # <<>>
    /\ outbox[v] # <<>>


(***************************************************************************)
(* C12: one report per service. When the run of N services is over, every  *)
(* worker has had at least one event delivered, every event of a worker    *)
(* carries the name of its service, and so every service has a last        *)
(* event. A lifecycle call before the current one has had its events       *)
(* delivered (the worker goes on only when its send was taken), and the    *)
(* first lifecycle call of every command sends an event.                   *)
(***************************************************************************)
Reported(w) == recv[w] # <<>> \/ Len(steps[w]) >= 3 \/ pc[w] = "exited"

C12_OneReportEach ==
  /\ \A w \in Workers :
       \A i \in 1..Len(Sent(w)) : Sent(w)[i].serviceName = Name(w)
  /\ (crashed \/ mainPc = "exit") => \A w \in Workers : Reported(w)


(***************************************************************************)
(* C13: quiet mode filter. With quiet mode on, no line of status normal    *)
(* or success is written and every error event received is written, in    *)
(* order; with quiet mode off every event received is written, in order.   *)
(***************************************************************************)
ErrorsOf(q) == SelectSeq(q, LAMBDA m : m.status = MessageError)

SameEvent(line, m) ==
  line.serviceName = m.serviceName /\ line.status = m.status

C13_QuietFilter ==
  \A w \in Workers :
    /\ QuietMode =>
         /\ \A i \in 1..Len(printed[w]) :
              printed[w][i].status \notin {MessageNormal, MessageSuccess}
         /\ Len(printed[w]) = Len(ErrorsOf(recv[w]))
         /\ \A i \in 1..Len(printed[w]) :
              SameEvent(printed[w][i], ErrorsOf(recv[w])[i])
    /\ ~QuietMode =>
         /\ Len(printed[w]) = Len(recv[w])
         /\ \A i \in 1..Len(printed[w]) : SameEvent(printed[w][i], recv[w][i])

\* quiet mode is on and the loop has received a normal event and then an
\* error event of a call
C13_Witness ==
  /\ QuietMode
  /\ \E w \in Workers :
       /\ \E i \in 1..Len(recv[w]) : recv[w][i].status = MessageNormal
       /\ \E i \in 1..Len(recv[w]) : recv[w][i].status = MessageError
       /\ printed[w] # <<>>


(***************************************************************************)
(* C14: step event protocol. In a lifecycle call that performs remote      *)
(* actions every action is announced by a normal event and answered by     *)
(* exactly one outcome event (success, error or warning) before the next   *)
(* action is announced: the events of the call are pairs of a normal event *)
(* and an outcome event, and every remote action runs between the two      *)
(* events of a pair.                                                       *)
(***************************************************************************)
Outcomes == {MessageSuccess, MessageError, MessageWarning}

IsAnnounce(it) == it.k = "event" /\ it.status = MessageNormal
IsOutcome(it) == it.k = "event" /\ it.status \in Outcomes

\* the number of events among the first i items
EventsBefore(items, i) == Len(Events(SubSeq(items, 1, i)))

StepProtocol(items) ==
  /\ Len(Events(items)) % 2 = 0
  /\ \A j \in 1..Len(Events(items)) :
       IF j % 2 = 1 THEN IsAnnounce(Events(items)[j])
       ELSE IsOutcome(Events(items)[j])
  /\ \A i \in 1..Len(items) :
       items[i].k = "remote" => EventsBefore(items, i) % 2 = 1

C14_StepProtocol ==
  \A w \in Workers :
    (/\ LastCall(w) \notin {"", "MakeService"}
     /\ pc[w] # "panic"
     /\ Remotes(ops[w]) # <<>>) => StepProtocol(ops[w])


(***************************************************************************)
(* C15: remote diagnostics. In every lifecycle call that runs commands     *)
(* through Exec, an error event sent because the command before it failed  *)
(* carries the standard error text Exec returned for that command.         *)
(***************************************************************************)
ExecSteps ==
  { "CheckGo", "CheckSystemd", "CheckLingering", "CheckWorkingDir",
    "AuthPrivateRepo", "InstallExecutable", "DeleteExecutable",
    "DeleteServiceFile", "ReloadDaemon", "ResetFailedServices",
    "EnableService", "DisableService", "StartService", "StopService",
    "RestartService", "StatusService" }

CarriesStderr(it) == \E j \in 1..Len(it.text) : it.text[j] = Stderr

C15_RemoteDiagnostic ==
  \A w \in Workers :
    LastCall(w) \in ExecSteps =>
      \A i \in 2..Len(ops[w]) :
        (/\ ops[w][i].k = "event" /\ ops[w][i].status = MessageError
         /\ ops[w][i - 1].k = "remote" /\ ops[w][i - 1].status = "fail")
          => CarriesStderr(ops[w][i])


(***************************************************************************)
(* C16: the remote path of a visited entry. Every call of the callback is  *)
(* handed dstDir joined with the path of the entry relative to the parent  *)
(* of srcPath, also for an entry that follows a deeper one.                *)
(***************************************************************************)
MirrorPath(local) == JoinPath(<<WalkDst, JoinPath(local)>>)

C16_RemotePath ==
  \A i \in 1..Len(visits) : visits[i].dstPath = MirrorPath(visits[i].local)

(***************************************************************************)
(* C17: round trip. When CopyFile returned nil and DeleteFile of the same  *)
(* path has returned, the remote file system is what it was before the     *)
(* copy, whatever was there before.                                        *)
(***************************************************************************)
C17_RoundTrip ==
  (copied = "ok" /\ wpc = "end") => remoteTree = remoteBefore

(***************************************************************************)
(* C18: bottom-up removal. DeleteFile removes files while it walks and     *)
(* directories only after the walk, in the reverse of the order it visited *)
(* them: every removal of a file comes before every removal of a           *)
(* directory, and when DeleteFile has returned every visited entry has had *)
(* its removal attempted, an entry beneath a directory before that         *)
(* directory.                                                              *)
(***************************************************************************)
DirVisits == SelectSeq(visits, LAMBDA v : v.dir)
FileVisits == SelectSeq(visits, LAMBDA v : ~v.dir)
DirAttempts == SelectSeq(attempts, LAMBDA a : a.dir)
FileAttempts == SelectSeq(attempts, LAMBDA a : ~a.dir)

\* the place among the attempts of the removal of the entry visited j-th
AttemptOf(j) ==
  IF visits[j].dir
  THEN Len(FileVisits) + Len(DirVisits) + 1
         - Cardinality({i \in 1..j : visits[i].dir})
  ELSE Cardinality({i \in 1..j : ~visits[i].dir})

Beneath(e, d) ==
  Len(e) > Len(d) /\ SubSeq(e, 1, Len(d)) = d

C18_BottomUp ==
  wpc \in {"delete", "rmdirs", "end"} =>
    /\ wpc = "delete" => DirAttempts = <<>>
    /\ \A i, j \in 1..Len(attempts) :
         (i < j /\ attempts[i].dir) => attempts[j].dir
    /\ \A i \in 1..Len(FileAttempts) :
         FileAttempts[i].path = FileVisits[i].dstPath
    /\ \A i \in 1..Len(DirAttempts) :
         DirAttempts[i].path = DirVisits[Len(DirVisits) + 1 - i].dstPath
    /\ wpc = "end" =>
         /\ Len(attempts) = Len(visits)
         /\ \A i, j \in 1..Len(visits) :
              (visits[i].dir /\ Beneath(visits[j].local, visits[i].local))
                => AttemptOf(j) < AttemptOf(i)

\* DeleteFile has returned after removing files and at least two
\* directories, one beneath the other
C18_Witness ==
  /\ wpc = "end"
  /\ FileAttempts # <<>>
  /\ Len(DirAttempts) >= 2
  /\ \E i, j \in 1..Len(visits) :
       visits[i].dir /\ visits[j].dir
         /\ Beneath(visits[j].local, visits[i].local)


(***************************************************************************)
(* C19: deleting does not abort. Whatever removal failed, a call of        *)
(* DeleteFiles that returns has gone through every configured path (its    *)
(* removal was attempted, or the failure to open the file channel was      *)
(* reported), has sent the closing event of the loop, and, when            *)
(* removeWorkingDirectory was given, has attempted the removal of the log  *)
(* file and has gone on to the working directory.                          *)
(***************************************************************************)
Unmirror(c, j) ==
  "unmirror " \o c.CopyFiles[j] \o " from " \o c.WorkingDirectory

IsUnmirror(it, c) ==
  it.k = "remote" /\ \E j \in 1..Len(c.CopyFiles) : it.text = Unmirror(c, j)

InDeleteFiles(w) ==
  LastCall(w) = "DeleteFiles" /\ arg[w] \in {"true", "false"}

C20_FailureWarned ==
  \A w \in Workers :
    InDeleteFiles(w) =>
      \A i \in 1..Len(ops[w]) :
        (IsUnmirror(ops[w][i], Cfg(w)) /\ ops[w][i].status = "fail") =>
          /\ i < Len(ops[w])
          /\ ops[w][i + 1].k = "event"
          /\ ops[w][i + 1].status = MessageWarning


(***************************************************************************)
(* C21: copy failures abort the owning step. When mirroring a configured   *)
(* path fails in CopyFiles (the file channel cannot be opened, the local   *)
(* path is missing, a remote operation fails), the call sends exactly one  *)
(* error event and not the event that all files were copied, it returns    *)
(* the error, and Install returns without the upload of the unit file.     *)
(***************************************************************************)
CopyFailed(w) ==
  \/ pc[w] = "panic"
  \/ \E i \in 1..Len(ops[w]) :
       ops[w][i].k = "remote" /\ ops[w][i].status = "fail"

C21_CopyAborts ==
  \A w \in Workers :
    (LastCall(w) = "CopyFiles" /\ CopyFailed(w)) =>
      /\ Len(ErrorsOf(Events(ops[w]))) = 1
      /\ \A i \in 1..Len(ops[w]) :
           ops[w][i] # Ev("CopyFiles", <<"All files copied">>, MessageSuccess)
      /\ lastErr[w] # NoErr
      /\ pc[w] = "done"
      /\ ret[w] = lastErr[w]


(***************************************************************************)
(* C22: the working directory that is not empty. When DeleteFiles is given *)
(* removeWorkingDirectory and the removal of the working directory fails,  *)
(* an error event follows the removal: the one that says the directory is  *)
(* not empty, or, for any other failure, one that carries the text of the  *)
(* error.                                                                  *)
(***************************************************************************)
IsWorkingDirRemoval(it, c) ==
  it.k = "remote" /\ it.text = "sftp.Remove " \o c.WorkingDirectory

CannotDeleteWorkingDir(it, c) ==
  /\ it.k = "event" /\ it.status = MessageError
  /\ Len(it.text) >= 3
  /\ it.text[1] = "Cannot delete service working directory"
  /\ it.text[2] = c.WorkingDirectory

C22_NotEmptyDistinguished ==
  \A w \in Workers :
    (InDeleteFiles(w) /\ arg[w] = "true") =>
      \A i \in 1..Len(ops[w]) :
        (IsWorkingDirRemoval(ops[w][i], Cfg(w)) /\ ops[w][i].status = "fail")
          => /\ i < Len(ops[w])
             /\ CannotDeleteWorkingDir(ops[w][i + 1], Cfg(w))


(***************************************************************************)
(* C23: the home directory is kept. No call removes the home directory     *)
(* recorded by MakeService; the removal of the working directory or of the *)
(* log file is attempted only in DeleteFiles given removeWorkingDirectory, *)
(* and that of the working directory only when it is not the recorded home *)
(* directory.                                                              *)
(***************************************************************************)
IsLogFileRemoval(it, c) ==
  c.LogPath # "" /\ it.k = "remote" /\ it.text = "sftp.Remove " \o c.LogPath

C23_HomeKept ==
  \A w \in Workers :
    LastCall(w) \notin {"", "MakeService"} =>
      \A i \in 1..Len(ops[w]) :
        /\ ops[w][i].k = "remote" =>
             ops[w][i].text # "sftp.Remove " \o svc[w].remoteHomeDir
        /\ (IsWorkingDirRemoval(ops[w][i], Cfg(w))
              \/ IsLogFileRemoval(ops[w][i], Cfg(w))) =>
             LastCall(w) = "DeleteFiles" /\ arg[w] = "true"
        /\ IsWorkingDirRemoval(ops[w][i], Cfg(w)) =>
             Cfg(w).WorkingDirectory # svc[w].remoteHomeDir

\* DeleteFiles was given removeWorkingDirectory for a service whose
\* working directory is the home directory, and has removed its log file
C23_Witness ==
  \E w \in Workers :
    /\ InDeleteFiles(w) /\ arg[w] = "true"
    /\ Cfg(w).WorkingDirectory = svc[w].remoteHomeDir
    /\ \E i \in 1..Len(ops[w]) : IsLogFileRemoval(ops[w][i], Cfg(w))
    /\ pc[w] = "done"


(***************************************************************************)
(* C24: defaults are resolved once per service name. Of the workers that   *)
(* were given the same name at most one has connected and resolved the     *)
(* defaults itself (the Service it holds has its own client); the others   *)
(* hold the cached Service.                                                *)
(***************************************************************************)
ResolvedItself(w) == svc[w].client = w

C24_ResolvedOnce ==
  \A w, v \in Workers :
    (w # v /\ Name(w) = Name(v)) => ~(ResolvedItself(w) /\ ResolvedItself(v))


(***************************************************************************)
(* C25: workers share only the sink. No worker reads the services cache    *)
(* while another writes it unless both hold the mutex: whenever one        *)
(* worker is at the look-up and another at the store, the look-up is made  *)
(* under r.mu, and the process never ends by the fatal error of a map      *)
(* read while written.                                                     *)
(***************************************************************************)
C25_NoSharedAccess ==
  \A w, v \in Workers : CacheRace(w, v) => CacheReadHoldsMu


(***************************************************************************)
(* C26: ConnectSftpClient is idempotent. A lifecycle call made while the   *)
(* client holds a channel opens none and leaves the channel in place; in   *)
(* a call made without one, no sftp.NewClient follows one that succeeded,  *)
(* one that failed caches nothing, and the client holds a channel          *)
(* afterwards exactly when one sftp.NewClient succeeded.                   *)
(***************************************************************************)
IsNewClient(it) == it.k = "remote" /\ it.text = "sftp.NewClient"

C26_ConnectOnce ==
  [][\A w \in Workers :
       (steps'[w] # steps[w] /\ steps'[w][Len(steps'[w])] # "MakeService") =>
         LET items == ops'[w]
             c == svc[w].client
             news == {i \in 1..Len(items) : IsNewClient(items[i])}
         IN /\ SftClient[c] => (news = {} /\ SftClient'[c])
            /\ \A i, j \in news : items[i].status = "ok" => j <= i
            /\ SftClient'[c] <=>
                 (SftClient[c] \/ \E i \in news : items[i].status = "ok")]_vars

\* the unit file was uploaded over the channel an earlier call had opened
C26_Witness ==
  \E w \in Workers :
    /\ LastCall(w) = "CreateServiceFile"
    /\ Calls(w, "CopyFiles") = 1
    /\ Len(Cfg(w).CopyFiles) > 0
    /\ ops[w] # <<>>
    /\ \A i \in 1..Len(ops[w]) : ~IsNewClient(ops[w][i])
    /\ SftClient[svc[w].client]


(***************************************************************************)
(* Service.Exec, called on its own.                                        *)
(***************************************************************************)
Executed == call.fn = "Exec" /\ result # NoCall

\* out is raw without its trailing newline, when it has one
Stripped(raw, out) ==
  IF HasSuffix(raw, "\n") THEN out \o "\n" = raw ELSE out = raw

\* C27: Service.Exec returns the standard output of the command and no
\* error when the command succeeds, its standard error and an error when
\* it fails, the trailing newline stripped in both cases; on a client that
\* is not connected it returns an error and runs nothing.
C27_ExecResult ==
  Executed =>
    /\ ~call.connected => result.err # NoErr /\ ~result.ran
    /\ call.connected /\ call.session /\ call.exit0 =>
         /\ result.err = NoErr
         /\ Stripped(call.stdout, result.output)
    /\ call.connected /\ call.session /\ ~call.exit0 =>
         /\ result.err # NoErr
         /\ Stripped(call.stderr, result.output)

C27_Witness ==
  /\ Executed
  /\ call.connected /\ call.session /\ ~call.exit0
  /\ call.stdout = "out" /\ call.stderr = "out\n\n"
  /\ result.output = "out\n"

(***************************************************************************)
(* GenerateServiceFile, called on its own.                                 *)
(***************************************************************************)
Rendered == call.fn = "GenerateServiceFile" /\ result # NoCall

\* the optional fields of the configuration, and the lines each one gives
OptionalFields ==
  {"RunAfterService", "StartLimitBurst", "StartLimitIntervalSec",
   "RestartSec", "Environment", "LogPath"}

IsSet(c, f) ==
  IF f \in {"StartLimitBurst", "StartLimitIntervalSec", "RestartSec"}
  THEN c[f] # 0 ELSE c[f] # ""

FieldsSet(c) == {f \in OptionalFields : IsSet(c, f)}

OptionalKeys ==
  <<[key |-> "After=", field |-> "RunAfterService"],
    [key |-> "StartLimitBurst=", field |-> "StartLimitBurst"],
    [key |-> "StartLimitIntervalSec=", field |-> "StartLimitIntervalSec"],
    [key |-> "RestartSec=", field |-> "RestartSec"],
    [key |-> "Environment=", field |-> "Environment"],
    [key |-> "StandardOutput=", field |-> "LogPath"],
    [key |-> "StandardError=", field |-> "LogPath"]>>

MandatoryKeys ==
  {"Description=", "Type=", "Restart=", "WorkingDirectory=", "ExecStart=",
   "WantedBy="}

HasPrefix(s, prefix) ==
  Len(s) >= Len(prefix) /\ SubSeq(s, 1, Len(prefix)) = prefix

\* the places of the lines of text that begin with key
LinesOf(text, key) == {i \in DOMAIN text : HasPrefix(text[i], key)}

\* C28: the rendered unit text has the line of an optional field if and
\* only if the value of the field is set, the optional lines come in one
\* fixed order, and the Description, Type, Restart, WorkingDirectory,
\* ExecStart and WantedBy lines are always there.
C28_OptionalLines ==
  Rendered =>
    /\ \A k \in DOMAIN OptionalKeys :
         LinesOf(result.text, OptionalKeys[k].key) # {}
           <=> IsSet(call.conf, OptionalKeys[k].field)
    /\ \A j, k \in DOMAIN OptionalKeys :
         j < k =>
           \A a \in LinesOf(result.text, OptionalKeys[j].key),
              b \in LinesOf(result.text, OptionalKeys[k].key) : a < b
    /\ \A key \in MandatoryKeys : LinesOf(result.text, key) # {}

C28_Witness ==
  /\ Rendered
  /\ FieldsSet(call.conf) = {"StartLimitBurst", "Environment", "LogPath"}
  /\ LinesOf(result.text, "Environment=") # {}
  /\ LinesOf(result.text, "After=") = {}

\* the configuration with no optional value set
Unset(c) ==
  [c EXCEPT !.RunAfterService = "", !.StartLimitBurst = 0,
            !.StartLimitIntervalSec = 0, !.RestartSec = 0,
            !.Environment = "", !.LogPath = ""]

\* the lines the call added to the rendering with no optional field set
Added ==
  Len(result.text) - Len(GenerateServiceFile(call.name, Unset(call.conf)))

OnlyLinesOf(fields) ==
  \A k \in DOMAIN OptionalKeys :
    OptionalKeys[k].field \notin fields =>
      LinesOf(result.text, OptionalKeys[k].key) = {}

\* C29 as stated: no optional field set gives only the mandatory lines, and
\* any single optional field adds exactly one line and none of the others.
C29_OneLineEach ==
  Rendered =>
    /\ FieldsSet(call.conf) = {} =>
         /\ OnlyLinesOf({})
         /\ \A i \in DOMAIN result.text :
              result.text[i] \in {"", "[Unit]", "[Service]", "[Install]"}
                \/ \E key \in MandatoryKeys : HasPrefix(result.text[i], key)
    /\ \A f \in OptionalFields :
         FieldsSet(call.conf) = {f} => Added = 1 /\ OnlyLinesOf({f})

\* C29, amended: no optional field set gives only the mandatory lines; any
\* single optional field other than log_path adds exactly one line, and
\* log_path adds two, StandardOutput and StandardError; none adds a line
\* of another field.
C29_OneLineEachButLog ==
  Rendered =>
    /\ FieldsSet(call.conf) = {} =>
         /\ OnlyLinesOf({})
         /\ \A i \in DOMAIN result.text :
              result.text[i] \in {"", "[Unit]", "[Service]", "[Install]"}
                \/ \E key \in MandatoryKeys : HasPrefix(result.text[i], key)
    /\ \A f \in OptionalFields :
         FieldsSet(call.conf) = {f} =>
           /\ Added = (IF f = "LogPath" THEN 2 ELSE 1)
           /\ OnlyLinesOf({f})
           /\ f = "LogPath" =>
                /\ LinesOf(result.text, "StandardOutput=") # {}
                /\ LinesOf(result.text, "StandardError=") # {}

C29_Witness ==
  /\ Rendered
  /\ FieldsSet(call.conf) = {"LogPath"}
  /\ Added = 2


(***************************************************************************)
(* MakeService, called on its own.                                         *)
(***************************************************************************)
Materialized ==
  call.fn = "MakeService" /\ result # NoCall /\ result.made

\* C30: a service that MakeService materialized has a start command and a
\* working directory that are not empty, whatever accepted go_install it
\* was given, a package reference without a version suffix included.
C30_StartCommandSet ==
  Materialized =>
    /\ result.conf.ExecStart # ""
    /\ result.conf.WorkingDirectory # ""


(***************************************************************************)
(* The defaults MakeService resolves.                                      *)
(***************************************************************************)
\* the fields of Conf whose value is a text the configuration may leave out
TextFields ==
  {"User", "Port", "PrivateKeyPath", "GoExecPath", "GoBinDirectory",
   "SystemdPath", "SystemdServicesDirectory", "SystemdLingerDirectory",
   "ExecStart", "WorkingDirectory"}

\* worker w is back from MakeService, which had the answer of pwd
HomeQueried(w) ==
  /\ LastCall(w) = "MakeService"
  /\ \E i \in DOMAIN ops[w] : ops[w][i] = Rem("MakeService", "pwd", "ok")

\* C31: a value the configuration file gives is never replaced by a
\* default, and once the connection and the query of the home directory
\* succeeded MakeService does not fail, whatever optional value is unset
\* and cannot be queried.
C31_DefaultsNeverFail ==
  /\ \A n \in DOMAIN conf : \A f \in TextFields :
       ConfFile[n][f] # "" => conf[n][f] = ConfFile[n][f]
  /\ \A w \in Workers : HomeQueried(w) => lastErr[w] = NoErr


(***************************************************************************)
(* loadConfFromEnv, called on its own.                                     *)
(***************************************************************************)
Overlaid == call.fn = "loadConfFromEnv" /\ result # NoCall

\* the prefix of the variables of each service name, and the integers the
\* values of the variables spell
EnvPrefix ==
  ("web" :> "WEB") @@ ("my-app" :> "MY_APP") @@ ("9lives" :> "_9LIVES")
    @@ ("Api.v2" :> "API_V2")

IntegerOf == ("12" :> 12) @@ ("-3" :> -3) @@ ("+7" :> 7)

Variable(k) == IF k \in DOMAIN call.env THEN call.env[k] ELSE ""

\* C32: a variable of the environment named ENV(s)_UPPER(k) that is not
\* empty replaces the value of the string or integer field with key k of
\* service s; an empty variable, and a value that is not an integer for an
\* integer field, leave the value of the file; ENV(s) is s in upper case,
\* every character that is not a letter or a digit replaced by an
\* underscore, with an underscore in front when it begins with a digit.
C32_EnvOverlay ==
  Overlaid =>
    LET user == Variable(EnvPrefix[call.name] \o "_USER")
        sec == Variable(EnvPrefix[call.name] \o "_RESTART_SEC")
    IN /\ result.conf.User = (IF user # "" THEN user ELSE call.conf.User)
       /\ result.conf.RestartSec =
            (IF sec \in DOMAIN IntegerOf THEN IntegerOf[sec]
             ELSE call.conf.RestartSec)
       /\ \A f \in DOMAIN call.conf \ {"User", "RestartSec"} :
            result.conf[f] = call.conf[f]

C32_Witness ==
  /\ Overlaid
  /\ call.name = "9lives"
  /\ Variable("_9LIVES_USER") = "root"
  /\ Variable("_9LIVES_RESTART_SEC") = "-3"
  /\ result.conf.User = "root"
  /\ result.conf.RestartSec = -3


(***************************************************************************)
(* The services main dispatches.                                           *)
(***************************************************************************)
Dispatched == call.fn = "main" /\ result # NoCall

\* C33: with no service named, the services dispatched are the configured
\* ones whose ignore flag is false, each once; with names given, exactly
\* those names are dispatched, the ignored ones included.
C33_Dispatch ==
  Dispatched =>
    IF call.args = <<>>
    THEN /\ {result.services[i] : i \in DOMAIN result.services}
              = {n \in DOMAIN call.ignore : call.ignore[n] = FALSE}
         /\ \A i, j \in DOMAIN result.services :
              result.services[i] = result.services[j] => i = j
         /\ result.wg = Len(result.services)
    ELSE /\ result.services = call.args
         /\ result.wg = Len(call.args)

C33_Witness ==
  /\ Dispatched
  /\ call.args = <<>>
  /\ call.ignore["db"] /\ ~call.ignore["web"] /\ ~call.ignore["api"]
  /\ Len(result.services) = 2

\* names given on the command line, one of them ignored in the file
C33_WitnessNamed ==
  /\ Dispatched
  /\ call.args = <<"db", "web">>
  /\ call.ignore["db"]
  /\ result.services = <<"db", "web">>


(***************************************************************************)
(* AuthPrivateRepo and the remote credential file.                         *)
(***************************************************************************)
Authenticated == call.fn = "AuthPrivateRepo" /\ result # NoCall

Entries(file) == {file.lines[i] : i \in DOMAIN file.lines}

\* C34: with a credential configured AuthPrivateRepo adds the entry to the
\* remote credential file unless an identical entry is there: the file is
\* left unchanged if it is, and otherwise holds the entry and every entry
\* it held before; a second run leaves the file of the first; with no
\* credential configured the file is neither read nor written.
C34_NetrcEntry ==
  Authenticated =>
    /\ call.goPrivate = "" =>
         result.netrc = result.before /\ result.cmds = <<>>
    /\ call.goPrivate # "" /\ result.err = NoErr =>
         IF call.auth \in Entries(result.before)
         THEN result.netrc = result.before
         ELSE /\ call.auth \in Entries(result.netrc)
              /\ Entries(result.before) \subseteq Entries(result.netrc)
    /\ result.runs = 2 /\ result.ok => result.netrc = result.before


(***************************************************************************)
(* CheckWorkingDir.                                                        *)
(***************************************************************************)
InCheckWorkingDir(w) ==
  LastCall(w) = "CheckWorkingDir" /\ arg[w] \in {"true", "false"}

\* C35: if the working directory exists CheckWorkingDir succeeds and runs
\* no creation command; if it is absent and createWorkingDirectory is
\* false the step emits an error and returns a failure that ends Install,
\* mkdir not run; if it is absent and the flag is true mkdir is run and the
\* step succeeds exactly when mkdir does.
C35_WorkingDirChecked ==
  \A w \in Workers :
    InCheckWorkingDir(w) =>
      LET rem == Remotes(ops[w])
          test == "test -e " \o Cfg(w).WorkingDirectory
          mkdir == "mkdir -p " \o Cfg(w).WorkingDirectory
      IN /\ Len(rem) >= 1 /\ rem[1].text = test
         /\ rem[1].status = "ok" =>
              /\ Len(rem) = 1
              /\ lastErr[w] = NoErr
              /\ pc[w] = "AuthPrivateRepo"
         /\ (rem[1].status = "fail" /\ arg[w] = "false") =>
              /\ Len(rem) = 1
              /\ lastErr[w] # NoErr
              /\ ErrorsOf(Events(ops[w])) # <<>>
              /\ pc[w] = "done" /\ ret[w] # NoErr
         /\ (rem[1].status = "fail" /\ arg[w] = "true") =>
              /\ Len(rem) = 2 /\ rem[2].text = mkdir
              /\ lastErr[w] = NoErr <=> rem[2].status = "ok"
              /\ pc[w] = "AuthPrivateRepo" <=> rem[2].status = "ok"
              /\ pc[w] = "done" <=> rem[2].status = "fail"

C35_Witness ==
  \E w \in Workers :
    /\ InCheckWorkingDir(w)
    /\ arg[w] = "false"
    /\ Remotes(ops[w])[1].status = "fail"
    /\ lastErr[w] # NoErr
    /\ pc[w] = "done"


(***************************************************************************)
(* The column of the service names.                                        *)
(***************************************************************************)
PrintedOut == call.fn = "StartPrintOutput" /\ result # NoCall

Selected == {call.services[i] : i \in DOMAIN call.services}

\* the length of the longest selected name, 0 when none is selected
Longest ==
  IF Selected = {} THEN 0
  ELSE CHOOSE n \in {Len(s) : s \in Selected} :
         \A s \in Selected : Len(s) <= n

\* C36: every line printed for a selected service has the same width of the
\* column of names, the length of the longest selected name plus 3; a line
\* for a name longer than every selected name is as wide as its own name
\* plus 3, and the other lines keep their width.
C36_ColumnWidth ==
  PrintedOut =>
    \A i \in DOMAIN result.lines :
      LET line == result.lines[i]
      IN /\ line.serviceName \in Selected => line.width = Longest + 3
         /\ Len(line.serviceName) > Longest =>
              line.width = Len(line.serviceName) + 3

\* two lines are printed, the first for a name longer than the selected
\* ones, the second for the shorter of the two selected names
C36_Witness ==
  /\ PrintedOut
  /\ call.services = <<"api", "nohost">>
  /\ Len(result.lines) = 2
  /\ result.lines[1].serviceName = "long-name" /\ result.lines[1].width = 12
  /\ result.lines[2].serviceName = "api" /\ result.lines[2].width = 9


(***************************************************************************)
(* Termination.                                                            *)
(***************************************************************************)
\* every worker ran to its end, wg.Wait returned and the sink took quit
Ended ==
  /\ \A w \in Workers : pc[w] = "exited" /\ outbox[w] = <<>>
  /\ mainPc = "exit"
  /\ sinkPc = "stopped"

\* C37: under a fair scheduler and with remote calls that return, every
\* worker runs to completion or to its first failure, wg.Wait returns, the
\* sink takes the stop signal and the run ends; no worker stays blocked in
\* SendMessage and StopPrintOutput does not block forever.
C37_Terminates == <>Ended

\* the same, for the runs in which no goroutine panics
C37_TerminatesUnlessCrashed == <>(Ended \/ crashed)


(***************************************************************************)
(* The success events of the removals of DeleteFiles.                      *)
(***************************************************************************)
IsDeleted(it) == it = Ev("DeleteFiles", <<"Deleted">>, MessageSuccess)

\* the place of the last remote action before place i of the call
ActionBefore(items, i) ==
  LET prior == {j \in 1..(i - 1) : items[j].k # "event"}
  IN IF prior = {} THEN 0
     ELSE CHOOSE j \in prior : \A h \in prior : h <= j

\* C38: in DeleteFiles with removeWorkingDirectory set, the success event
\* Deleted is emitted for the working directory or for the log file only
\* if its remote removal succeeded: after a removal that failed, or a file
\* channel that could not be opened, no success event follows.
C38_DeletedOnlyIfRemoved ==
  \A w \in Workers :
    (InDeleteFiles(w) /\ arg[w] = "true") =>
      \A i \in 1..Len(ops[w]) :
        IsDeleted(ops[w][i]) =>
          LET j == ActionBefore(ops[w], i)
          IN /\ j # 0
             /\ ops[w][j].status = "ok"
             /\ \/ IsWorkingDirRemoval(ops[w][j], Cfg(w))
                \/ IsLogFileRemoval(ops[w][j], Cfg(w))


(***************************************************************************)
(* The order of the events of one service.                                 *)
(***************************************************************************)
Took(w) == recv'[w] # recv[w] /\ recv'[w] # <<>>

\* C39: the loop receives and prints the events of a service in the order
\* its worker emitted them, whatever the other workers do: what it takes
\* from a worker is the oldest event the worker has not delivered, put
\* after the ones received and printed before, none taken twice and none
\* skipped.
C39_OrderKept ==
  [][\A w \in Workers :
       /\ Took(w) =>
            /\ outbox[w] # <<>>
            /\ recv'[w] = Append(recv[w], Head(outbox[w]))
            /\ outbox'[w] = Tail(outbox[w])
            /\ IsPrefix(recv'[w], Messages(Name(w), ops[w]))
            /\ \/ printed'[w] = printed[w]
               \/ /\ Len(printed'[w]) = Len(printed[w]) + 1
                  /\ SubSeq(printed'[w], 1, Len(printed[w])) = printed[w]
                  /\ SameEvent(printed'[w][Len(printed'[w])], Head(outbox[w]))
       /\ (printed'[w] # printed[w] /\ printed'[w] # <<>>) => Took(w)]_vars

\* the loop has taken two events of one worker and, in between or around
\* them, events of another worker that still has events to deliver
C39_Witness ==
  \E w, v \in Workers :
    /\ w # v
    /\ Len(recv[w]) >= 2 /\ Len(printed[w]) >= 2
    /\ recv[v] # <<>> /\ outbox[v] # <<>>


(***************************************************************************)
(* The values of the configuration in commands and in the unit file.       *)
(***************************************************************************)
Parsed == call.fn = "ParseCommand" /\ result # NoCall

\* the template with the value of every field put in as it is configured
RECURSIVE Verbatim(_, _)
Verbatim(parts, c) ==
  IF parts = <<>> THEN ""
  ELSE (IF Head(parts).k = "text" THEN Head(parts).v ELSE c[Head(parts).v])
         \o Verbatim(Tail(parts), c)

HasLine(text, line) == \E i \in DOMAIN text : text[i] = line

\* C40: the text ParseCommand puts into a command and GenerateServiceFile
\* into the unit file for a value of the configuration is, character for
\* character, the configured value: no quote, ampersand or angle bracket
\* is altered or escaped.
C40_Verbatim ==
  /\ Parsed => result.cmd = Verbatim(call.cmd, call.conf)
  /\ Rendered =>
       /\ HasLine(result.text, "WorkingDirectory=" \o call.conf.WorkingDirectory)
       /\ HasLine(result.text, "ExecStart=" \o call.conf.ExecStart)
       /\ call.conf.Environment # "" =>
            HasLine(result.text, "Environment=" \o call.conf.Environment)
       /\ call.conf.RunAfterService # "" =>
            HasLine(result.text, "After=" \o call.conf.RunAfterService)
       /\ call.conf.LogPath # "" =>
            /\ HasLine(result.text,
                       "StandardOutput=append:" \o call.conf.LogPath)
            /\ HasLine(result.text,
                       "StandardError=append:" \o call.conf.LogPath)

====
